---------------------------- MODULE Spec2Model ----------------------------
(***************************************************************************)
(* A model of the agent-sphere core: the action parser and the think-act   *)
(* loop of base/agent_framework.py and the provider router of              *)
(* llm/llm_router.py with its configuration llm/llm_config.py.             *)
(*                                                                         *)
(* Text is modelled character by character: a Python str is a sequence of  *)
(* one-character strings, so that brace counting, the regular expressions  *)
(* and json.loads / json.dumps are computed the way the code computes      *)
(* them.  A Python value (the result of json.loads, a dict of parameters)  *)
(* is a record [k, a, c]: k is its type, a the characters of an atom, c    *)
(* the entries [key, val] of a dict (in insertion order) or of a list.     *)
(***************************************************************************)
EXTENDS Integers, Sequences, FiniteSets, TLC

(***************************************************************************)
(* Characters                                                              *)
(***************************************************************************)
Digits == {"0", "1", "2", "3", "4", "5", "6", "7", "8", "9"}

Letters ==
    {"a", "b", "c", "d", "e", "f", "g", "h", "i", "j", "k", "l", "m",
     "n", "o", "p", "q", "r", "s", "t", "u", "v", "w", "x", "y", "z",
     "A", "B", "C", "D", "E", "F", "G", "H", "I", "J", "K", "L", "M",
     "N", "O", "P", "Q", "R", "S", "T", "U", "V", "W", "X", "Y", "Z"}

\* the regular expression class \w
WordChars == Letters \cup Digits \cup {"_"}

\* the regular expression class \s and the whitespace json.loads skips
Whitespace == {" ", "\n", "\t", "\r"}

(***************************************************************************)
(* Python values                                                           *)
(***************************************************************************)
None == [k |-> "none", a |-> <<>>, c |-> <<>>]

Str(chars) == [k |-> "str", a |-> chars, c |-> <<>>]

Num(chars) == [k |-> "num", a |-> chars, c |-> <<>>]

Bool(b) == [k |-> IF b THEN "true" ELSE "false", a |-> <<>>, c |-> <<>>]

List(items) == [k |-> "list", a |-> <<>>, c |-> items]

Dict(entries) == [k |-> "dict", a |-> <<>>, c |-> entries]

Entry(key, val) == [key |-> key, val |-> val]

\* key in d
HasKey(d, key) == \E n \in 1..Len(d.c) : d.c[n].key = key

\* d.get(key, dflt)
Get(d, key, dflt) ==
    IF HasKey(d, key)
    THEN d.c[CHOOSE n \in 1..Len(d.c) : d.c[n].key = key].val
    ELSE dflt

\* d[key] = val on the entries of a dict: a key that is present keeps its place
Put(entries, key, val) ==
    IF \E n \in 1..Len(entries) : entries[n].key = key
    THEN [n \in 1..Len(entries) |->
             IF entries[n].key = key THEN Entry(key, val) ELSE entries[n]]
    ELSE Append(entries, Entry(key, val))

\* bool(v): the truth value Python gives a value
Truthy(v) ==
    CASE v.k = "none" -> FALSE
      [] v.k = "false" -> FALSE
      [] v.k = "true" -> TRUE
      [] v.k = "str" -> v.a # <<>>
      [] v.k = "num" -> v.a \notin {<<"0">>, <<"-", "0">>}
      [] OTHER -> v.c # <<>>

\* whether hash(v) succeeds: a list and a dict are unhashable
Hashable(v) == v.k \notin {"list", "dict"}

\* str(v) of an atom, as an f-string formats it
PyStr(v) ==
    CASE v.k = "none" -> <<"N", "o", "n", "e">>
      [] v.k = "true" -> <<"T", "r", "u", "e">>
      [] v.k = "false" -> <<"F", "a", "l", "s", "e">>
      [] OTHER -> v.a

(***************************************************************************)
(* json.loads: a recursive-descent reading of one JSON value.  A result is *)
(* [ok, v, i]: ok is FALSE where json.loads raises JSONDecodeError, v is   *)
(* the value and i the index after it.  Exponents, \u escapes and the      *)
(* NaN/Infinity literals are not read (no modelled text contains them).   *)
(***************************************************************************)
Fail == [ok |-> FALSE, v |-> None, i |-> 0]

Ok(v, i) == [ok |-> TRUE, v |-> v, i |-> i]

\* the least member of a set of indices, 0 when the set is empty
FirstIn(S) == IF S = {} THEN 0 ELSE CHOOSE x \in S : \A y \in S : x <= y

\* the index after the run of characters of chars that starts at i
RunEnd(s, i, chars) ==
    IF i > Len(s) THEN i
    ELSE FirstIn({j \in i..(Len(s) + 1) : j > Len(s) \/ s[j] \notin chars})

SkipWs(s, i) == RunEnd(s, i, Whitespace)

\* whether the characters of lit stand in s from index i on
StartsWithAt(s, i, lit) ==
    /\ i >= 1
    /\ i + Len(lit) - 1 <= Len(s)
    /\ SubSeq(s, i, i + Len(lit) - 1) = lit

DigitsEnd(s, i) == RunEnd(s, i, Digits)

RECURSIVE ParseString(_, _, _)
ParseString(s, i, acc) ==
    IF i > Len(s) THEN Fail
    ELSE IF s[i] = "\"" THEN Ok(Str(acc), i + 1)
    ELSE IF s[i] = "\\" THEN
        IF i + 1 > Len(s) THEN Fail
        ELSE IF s[i + 1] \in {"\"", "\\", "/"}
             THEN ParseString(s, i + 2, Append(acc, s[i + 1]))
        ELSE IF s[i + 1] = "n" THEN ParseString(s, i + 2, Append(acc, "\n"))
        ELSE IF s[i + 1] = "t" THEN ParseString(s, i + 2, Append(acc, "\t"))
        ELSE IF s[i + 1] = "r" THEN ParseString(s, i + 2, Append(acc, "\r"))
        ELSE Fail
    ELSE IF s[i] \in {"\n", "\t", "\r"} THEN Fail
    ELSE ParseString(s, i + 1, Append(acc, s[i]))

ParseNumber(s, i) ==
    LET d == IF s[i] = "-" THEN i + 1 ELSE i
        e == IF d <= Len(s) /\ s[d] = "0" THEN d + 1 ELSE DigitsEnd(s, d)
        f == IF e + 1 <= Len(s) /\ s[e] = "." /\ s[e + 1] \in Digits
             THEN DigitsEnd(s, e + 1)
             ELSE e
    IN  IF e = d THEN Fail ELSE Ok(Num(SubSeq(s, i, f - 1)), f)

RECURSIVE ParseValue(_, _)
RECURSIVE ParseMembers(_, _, _)
RECURSIVE ParseItems(_, _, _)

\* the members of an object from index i, where a key is expected
ParseMembers(s, i, acc) ==
    LET j == SkipWs(s, i) IN
    IF j > Len(s) \/ s[j] # "\"" THEN Fail
    ELSE LET key == ParseString(s, j + 1, <<>>) IN
         IF ~key.ok THEN Fail
         ELSE LET c == SkipWs(s, key.i) IN
              IF c > Len(s) \/ s[c] # ":" THEN Fail
              ELSE LET val == ParseValue(s, c + 1) IN
                   IF ~val.ok THEN Fail
                   ELSE LET n == SkipWs(s, val.i)
                            acc2 == Put(acc, key.v.a, val.v)
                        IN  IF n > Len(s) THEN Fail
                            ELSE IF s[n] = "," THEN ParseMembers(s, n + 1, acc2)
                            ELSE IF s[n] = "}" THEN Ok(Dict(acc2), n + 1)
                            ELSE Fail

\* the items of an array from index i, where a value is expected
ParseItems(s, i, acc) ==
    LET val == ParseValue(s, i) IN
    IF ~val.ok THEN Fail
    ELSE LET n == SkipWs(s, val.i)
             acc2 == Append(acc, Entry(<<>>, val.v))
         IN  IF n > Len(s) THEN Fail
             ELSE IF s[n] = "," THEN ParseItems(s, n + 1, acc2)
             ELSE IF s[n] = "]" THEN Ok(List(acc2), n + 1)
             ELSE Fail

ParseValue(s, i) ==
    LET j == SkipWs(s, i) IN
    IF j > Len(s) THEN Fail
    ELSE IF s[j] = "{" THEN
        LET m == SkipWs(s, j + 1) IN
        IF m <= Len(s) /\ s[m] = "}" THEN Ok(Dict(<<>>), m + 1)
        ELSE ParseMembers(s, j + 1, <<>>)
    ELSE IF s[j] = "[" THEN
        LET m == SkipWs(s, j + 1) IN
        IF m <= Len(s) /\ s[m] = "]" THEN Ok(List(<<>>), m + 1)
        ELSE ParseItems(s, j + 1, <<>>)
    ELSE IF s[j] = "\"" THEN ParseString(s, j + 1, <<>>)
    ELSE IF s[j] \in Digits \cup {"-"} THEN ParseNumber(s, j)
    ELSE IF StartsWithAt(s, j, <<"n", "u", "l", "l">>) THEN Ok(None, j + 4)
    ELSE IF StartsWithAt(s, j, <<"t", "r", "u", "e">>) THEN Ok(Bool(TRUE), j + 4)
    ELSE IF StartsWithAt(s, j, <<"f", "a", "l", "s", "e">>)
         THEN Ok(Bool(FALSE), j + 5)
    ELSE Fail

\* json.loads(s): the whole of s is one value, or JSONDecodeError (ok = FALSE)
json_loads(s) ==
    LET r == ParseValue(s, 1) IN
    IF r.ok /\ SkipWs(s, r.i) > Len(s) THEN r ELSE Fail


(***************************************************************************)
(* json.dumps with its default separators                                  *)
(***************************************************************************)
RECURSIVE EscapeStr(_)
EscapeStr(chars) ==
    IF chars = <<>> THEN <<>>
    ELSE LET h == Head(chars) IN
         (CASE h = "\"" -> <<"\\", "\"">>
            [] h = "\\" -> <<"\\", "\\">>
            [] h = "\n" -> <<"\\", "n">>
            [] h = "\t" -> <<"\\", "t">>
            [] h = "\r" -> <<"\\", "r">>
            [] OTHER -> <<h>>) \o EscapeStr(Tail(chars))

Quoted(chars) == <<"\"">> \o EscapeStr(chars) \o <<"\"">>

RECURSIVE json_dumps(_)
RECURSIVE DumpEntries(_, _)
DumpEntries(entries, keyed) ==
    IF entries = <<>> THEN <<>>
    ELSE (IF keyed THEN Quoted(Head(entries).key) \o <<":", " ">> ELSE <<>>)
         \o json_dumps(Head(entries).val)
         \o (IF Len(entries) > 1 THEN <<",", " ">> ELSE <<>>)
         \o DumpEntries(Tail(entries), keyed)

json_dumps(v) ==
    CASE v.k = "none" -> <<"n", "u", "l", "l">>
      [] v.k = "true" -> <<"t", "r", "u", "e">>
      [] v.k = "false" -> <<"f", "a", "l", "s", "e">>
      [] v.k = "num" -> v.a
      [] v.k = "str" -> Quoted(v.a)
      [] v.k = "list" -> <<"[">> \o DumpEntries(v.c, FALSE) \o <<"]">>
      [] OTHER -> <<"{">> \o DumpEntries(v.c, TRUE) \o <<"}">>

(***************************************************************************)
(* Agent._extract_json_object                                              *)
(***************************************************************************)
\* s.find(ch, i): the first index >= i that holds ch, 0 when there is none
FindFrom(s, i, ch) == FirstIn({j \in i..Len(s) : s[j] = ch})

\* brace_count after the loop over range(start_idx, len(text)) has read
\* text[i..j]
BraceCount(text, i, j, brace_count) ==
    brace_count + Cardinality({k \in i..j : text[k] = "{"})
                - Cardinality({k \in i..j : text[k] = "}"})

\* the loop over range(start_idx, len(text)): the index of the first '}'
\* that brings brace_count back to 0, 0 when the loop ends without one
MatchBrace(text, i, brace_count) ==
    FirstIn({j \in i..Len(text) :
                text[j] = "}" /\ BraceCount(text, i, j, brace_count) = 0})

\* the dict json.loads reads between the first '{' and its counted '}';
\* None when there is no such block or json.loads raises JSONDecodeError
_extract_json_object(text) ==
    LET start_idx == FindFrom(text, 1, "{") IN
    IF start_idx = 0 THEN None
    ELSE LET i == MatchBrace(text, start_idx, 0) IN
         IF i = 0 THEN None
         ELSE LET r == json_loads(SubSeq(text, start_idx, i)) IN
              IF r.ok THEN r.v ELSE None

(***************************************************************************)
(* The regular expressions of Agent._parse_action.  A match is a record    *)
(* [found, g1, g2] with the characters of its groups.                      *)
(***************************************************************************)
L_TOOL == <<"T", "O", "O", "L", ":">>

L_PARAMS == <<"P", "A", "R", "A", "M", "S", ":">>

K_action == <<"a", "c", "t", "i", "o", "n">>

K_parameters == <<"p", "a", "r", "a", "m", "e", "t", "e", "r", "s">>

NoMatch == [found |-> FALSE, g1 |-> <<>>, g2 |-> <<>>]

Match(g1, g2) == [found |-> TRUE, g1 |-> g1, g2 |-> g2]

\* the index after the run of \w characters that starts at i
WordEnd(s, i) == RunEnd(s, i, WordChars)

\* the match of r'TOOL:\s*(\w+)' that starts at index p
ToolAt(s, p) ==
    IF StartsWithAt(s, p, L_TOOL) THEN
        LET j == SkipWs(s, p + Len(L_TOOL)) IN
        IF j <= Len(s) /\ s[j] \in WordChars
        THEN Match(SubSeq(s, j, WordEnd(s, j) - 1), <<>>)
        ELSE NoMatch
    ELSE NoMatch

\* re.search(r'TOOL:\s*(\w+)', s), tried from index p on
SearchTool(s, p) ==
    LET q == FirstIn({j \in p..Len(s) : ToolAt(s, j).found}) IN
    IF q = 0 THEN NoMatch ELSE ToolAt(s, q)

\* the match of r'PARAMS:\s*({.*?})' with re.DOTALL that starts at index p
ParamsAt(s, p) ==
    IF StartsWithAt(s, p, L_PARAMS) THEN
        LET j == SkipWs(s, p + Len(L_PARAMS))
            e == IF j <= Len(s) /\ s[j] = "{" THEN FindFrom(s, j + 1, "}") ELSE 0
        IN  IF e # 0 THEN Match(SubSeq(s, j, e), <<>>) ELSE NoMatch
    ELSE NoMatch

\* re.search(r'PARAMS:\s*({.*?})', s, re.DOTALL), tried from index p on
SearchParams(s, p) ==
    LET q == FirstIn({j \in p..Len(s) : ParamsAt(s, j).found}) IN
    IF q = 0 THEN NoMatch ELSE ParamsAt(s, q)

\* the first index >= i that holds ch with no newline before it ('.' does
\* not match a newline), 0 when there is none
FindOnLine(s, i, ch) ==
    LET j == FirstIn({k \in i..Len(s) : s[k] = ch \/ s[k] = "\n"}) IN
    IF j # 0 /\ s[j] = ch THEN j ELSE 0

\* the match of r'(\w+)\((.*?)\)' that starts at index p
CallAt(s, p) ==
    IF s[p] \in WordChars THEN
        LET e == WordEnd(s, p)
            m == IF e <= Len(s) /\ s[e] = "(" THEN FindOnLine(s, e + 1, ")") ELSE 0
        IN  IF m # 0 THEN Match(SubSeq(s, p, e - 1), SubSeq(s, e + 1, m - 1))
            ELSE NoMatch
    ELSE NoMatch

\* re.search(r'(\w+)\((.*?)\)', s), tried from index p on
SearchCall(s, p) ==
    LET q == FirstIn({j \in p..Len(s) : CallAt(s, j).found}) IN
    IF q = 0 THEN NoMatch ELSE CallAt(s, q)

\* the match of r'(\w+)\s*=\s*(["\'])(.*?)\2' that starts at index p: its
\* groups 1 and 3, and the index after it
ArgAt(s, p) ==
    IF s[p] \in WordChars THEN
        LET e == WordEnd(s, p)
            q == SkipWs(s, e)
            o == IF q <= Len(s) /\ s[q] = "=" THEN SkipWs(s, q + 1) ELSE 0
            m == IF o # 0 /\ o <= Len(s) /\ s[o] \in {"\"", "'"}
                 THEN FindOnLine(s, o + 1, s[o])
                 ELSE 0
        IN  IF m # 0
            THEN [found |-> TRUE, g1 |-> SubSeq(s, p, e - 1),
                  g3 |-> SubSeq(s, o + 1, m - 1), next |-> m + 1]
            ELSE [found |-> FALSE, g1 |-> <<>>, g3 |-> <<>>, next |-> 0]
    ELSE [found |-> FALSE, g1 |-> <<>>, g3 |-> <<>>, next |-> 0]

RECURSIVE ParseArgs(_, _, _)
\* the loop over re.finditer(r'(\w+)\s*=\s*(["\'])(.*?)\2', args_str) from
\* index p on: params[param_name] = param_value for every match
ParseArgs(s, p, params) ==
    LET q == FirstIn({j \in p..Len(s) : ArgAt(s, j).found}) IN
    IF q = 0 THEN params
    ELSE ParseArgs(s, ArgAt(s, q).next,
                   Put(params, ArgAt(s, q).g1, Str(ArgAt(s, q).g3)))

(***************************************************************************)
(* Agent._parse_action: the action a reply holds, None when it holds none. *)
(* tools is the set of the names of the agent's registered tools.          *)
(***************************************************************************)
\* the dict {"action": name, "parameters": params}
Action(name, params) ==
    Dict(<<Entry(K_action, name), Entry(K_parameters, params)>>)

\* Fallback 1: TOOL: name and PARAMS: {...}
LabelledAction(response) ==
    LET tool_match == SearchTool(response, 1)
        params_match == SearchParams(response, 1)
        loaded == json_loads(params_match.g1)
        params == IF params_match.found /\ loaded.ok THEN loaded.v ELSE Dict(<<>>)
    IN  IF tool_match.found THEN Action(Str(tool_match.g1), params) ELSE None

\* a fallback 2 that accepts any name
CallAction_AnyName(response, tools) ==
    LET func_call_match == SearchCall(response, 1) IN
    IF func_call_match.found
    THEN Action(Str(func_call_match.g1),
                Dict(ParseArgs(func_call_match.g2, 1, <<>>)))
    ELSE None

\* Fallback 2: name(key="value", ...) where name is a known tool
CallAction(response, tools) ==
    LET func_call_match == SearchCall(response, 1) IN
    IF func_call_match.found /\ func_call_match.g1 \in tools
    THEN Action(Str(func_call_match.g1),
                Dict(ParseArgs(func_call_match.g2, 1, <<>>)))
    ELSE None

\* the strategies in another order: the TOOL:/PARAMS: labels are tried
\* before the JSON object
_parse_action_LabelsFirst(response, tools) ==
    LET json_obj == _extract_json_object(response) IN
    IF LabelledAction(response) # None THEN LabelledAction(response)
    ELSE IF Truthy(json_obj) /\ HasKey(json_obj, K_action) THEN json_obj
    ELSE CallAction(response, tools)

\* a parser that gives up when the first brace block is not a JSON object
_parse_action_JsonErrorEnds(response, tools) ==
    LET json_obj == _extract_json_object(response) IN
    IF Truthy(json_obj) /\ HasKey(json_obj, K_action) THEN json_obj
    ELSE IF FindFrom(response, 1, "{") # 0 /\ json_obj = None THEN None
    ELSE IF LabelledAction(response) # None THEN LabelledAction(response)
    ELSE CallAction(response, tools)

\* the three strategies of Agent._parse_action, in the order of the code
_parse_action(response, tools) ==
    LET json_obj == _extract_json_object(response) IN
    IF Truthy(json_obj) /\ HasKey(json_obj, K_action) THEN json_obj
    ELSE IF LabelledAction(response) # None THEN LabelledAction(response)
    ELSE CallAction(response, tools)

(***************************************************************************)
(* The agent of the model: its tool registry (Agent.tools) holds two       *)
(* tools, t whose handler returns "ok" and b whose handler raises          *)
(* ValueError("boom").                                                     *)
(***************************************************************************)
T_t == <<"t">>

T_b == <<"b">>

Tools == {T_t, T_b}

VARIABLES
    \* the parser on its own (ParserSpec)
    reply_parts,    \* the reply under parse: [pre, first, second, post]
    parsed,         \* what _parse_action returned for it
    parser_pc,      \* "ready" before the call, "parsed" after it
    \* llm_config and one call of the router (RouterSpec, LoopSpec)
    default_provider,   \* llm_config._config["default_provider"]
    failover_order,     \* llm_config._config["failover_order"]
    chat_log,       \* the last LLMRouter.chat call since the configuration
                    \* was set: its arguments, the behaviour it met and
                    \* what it did
    \* one Agent and its think_and_act invocations (LoopSpec)
    memory,         \* Agent.memory: the transcript, a sequence of turns
    pc,             \* per invocation: "idle", "loop" (head of the for
                    \* loop), "respond" (a reply is in), "done"
    iteration,      \* per invocation: the iterations consumed
    response,       \* per invocation: the reply of the last model call
    result,         \* per invocation: the string returned
    raised,         \* per invocation: an exception left think_and_act
    calls,          \* per invocation: model calls made
    execs,          \* per invocation: tool handlers run
    entry_len,      \* per invocation: Len(memory) when it was entered
    llm_log,        \* per invocation: what the router did on the last
                    \* model call
    prev_reply,     \* the text the model gave on its previous call
    changes,        \* how often the model changed its reply
    sessions,       \* think_and_act invocations that have returned or raised
    \* the LLMSequentialOrchestrator and one request (OrchSpec)
    custom_agents_manager,  \* the custom agents registered, in dict order
    analysis,       \* what analyze_request returned
    orch_pc,        \* "idle", "planned" (analyze_request returned),
                    \* "steps" (in the for loop), "done", "raised"
    step_index,     \* the loop index of execute_sequential_plan
    context,        \* its accumulated context
    results,        \* its results dict
    agent_calls,    \* the agents invoked: [agent_type, agent, message]
    agent_memory,   \* Agent.memory of each built-in agent of the orchestrator
    \* the SchedulerEngine singleton and its scheduler (SchedSpec)
    _meta,          \* SchedulerEngine._meta: job id -> metadata
    meta_file,      \* schedules_meta.json as _save_meta last wrote it
    jobs,           \* the jobs the BackgroundScheduler holds, by id
    job_execution_history,  \* the module-level history list
    now,            \* int(datetime.now().timestamp()), in seconds
    sched_return,   \* what the last SchedulerEngine call returned
    \* one Workflow and one execute_workflow call (WorkflowSpec)
    workflow,       \* the workflow: start_task_id and its tasks by id
    wf_status,      \* Workflow.status
    wf_pc,          \* "ready", "loop" (head of the while loop), "branch"
                    \* (in the for loop over a branch), "after", "done"
    current_task_id,
    visited,
    execution_path, \* Workflow.execution_path
    wf_context,     \* Workflow.context: task id -> [result, status]
    branch_tasks,   \* the tasks of the branch taken
    branch_pos,     \* the for loop's position in them
    task_runs,      \* per task id: the _execute_task calls made for it
    \* the schedule confirmation flow of /api/orchestrator/execute
    \* (ConfirmSpec)
    _pending_confirmations, \* schedule_intent._pending_confirmations
    req,            \* per request thread: where it is, its query and
                    \* the job spec it popped
    http_resp,      \* per request thread: its last response
    uuids,          \* the job ids intent_to_job_spec has drawn
    created,        \* the _create_job_from_spec calls: [job_id, success]
    conversations,  \* conversations["orchestrator"], by kind of message
    served          \* the requests received

parserVars == <<reply_parts, parsed, parser_pc>>

configVars == <<default_provider, failover_order>>

loopVars ==
    <<memory, pc, iteration, response, result, raised, calls, execs,
      entry_len, llm_log, prev_reply, changes, sessions>>

orchVars ==
    <<custom_agents_manager, analysis, orch_pc, step_index, context, results,
      agent_calls, agent_memory>>

schedVars ==
    <<_meta, meta_file, jobs, job_execution_history, now, sched_return>>

flowVars ==
    <<workflow, wf_status, wf_pc, current_task_id, visited, execution_path,
      wf_context, branch_tasks, branch_pos, task_runs>>

coreVars == <<parserVars, configVars, chat_log, loopVars, orchVars>>

pendingVars ==
    <<_pending_confirmations, req, http_resp, uuids, created, conversations,
      served>>

serviceVars == <<schedVars, flowVars, pendingVars>>

vars == <<parserVars, configVars, chat_log, loopVars, orchVars, serviceVars>>

(***************************************************************************)
(* Replies given to the parser.  A reply is made of an optional prose      *)
(* prefix, up to two blocks separated by a newline, and an optional prose  *)
(* suffix.  A block is [kind, text, val, strbrace]: val is the action the  *)
(* block states, written out by hand, and strbrace tells that a string of  *)
(* the block holds a brace character.                                      *)
(***************************************************************************)
Block(kind, text, val, strbrace) ==
    [kind |-> kind, text |-> text, val |-> val, strbrace |-> strbrace]

NoBlock == Block("empty", <<>>, None, FALSE)

\* {"action":"x","parameters":{"a":{"b":1}}}
JsonNested ==
    Block("json", <<"{", "\"", "a", "c", "t", "i", "o", "n", "\"", ":", "\"", "x", "\"", ",", "\"", "p", "a", "r", "a", "m", "e", "t", "e", "r", "s", "\"", ":", "{", "\"", "a", "\"", ":", "{", "\"", "b", "\"", ":", "1", "}", "}", "}">>,
          Action(Str(<<"x">>), Dict(<<Entry(<<"a">>, Dict(<<Entry(<<"b">>, Num(<<"1">>))>>))>>)),
          FALSE)

\* {"action": "t", "parameters": {"k": "v"}}
JsonFlat ==
    Block("json", <<"{", "\"", "a", "c", "t", "i", "o", "n", "\"", ":", " ", "\"", "t", "\"", ",", " ", "\"", "p", "a", "r", "a", "m", "e", "t", "e", "r", "s", "\"", ":", " ", "{", "\"", "k", "\"", ":", " ", "\"", "v", "\"", "}", "}">>,
          Action(Str(T_t), Dict(<<Entry(<<"k">>, Str(<<"v">>))>>)), FALSE)

\* {"action":"z","parameters":{"k":"v"}}: a tool that is not registered
JsonUnknown ==
    Block("json", <<"{", "\"", "a", "c", "t", "i", "o", "n", "\"", ":", "\"", "z", "\"", ",", "\"", "p", "a", "r", "a", "m", "e", "t", "e", "r", "s", "\"", ":", "{", "\"", "k", "\"", ":", "\"", "v", "\"", "}", "}">>,
          Action(Str(<<"z">>), Dict(<<Entry(<<"k">>, Str(<<"v">>))>>)), FALSE)

\* {"action":"x","parameters":{"a":{"b":"}"}}}: a string value holds '}'
JsonCloseInString ==
    Block("json", <<"{", "\"", "a", "c", "t", "i", "o", "n", "\"", ":", "\"", "x", "\"", ",", "\"", "p", "a", "r", "a", "m", "e", "t", "e", "r", "s", "\"", ":", "{", "\"", "a", "\"", ":", "{", "\"", "b", "\"", ":", "\"", "}", "\"", "}", "}", "}">>,
          Action(Str(<<"x">>), Dict(<<Entry(<<"a">>, Dict(<<Entry(<<"b">>, Str(<<"}">>))>>))>>)),
          TRUE)

\* {"action":"x","parameters":{"a":{"b":"{"}}}: a string value holds '{'
JsonOpenInString ==
    Block("json", <<"{", "\"", "a", "c", "t", "i", "o", "n", "\"", ":", "\"", "x", "\"", ",", "\"", "p", "a", "r", "a", "m", "e", "t", "e", "r", "s", "\"", ":", "{", "\"", "a", "\"", ":", "{", "\"", "b", "\"", ":", "\"", "{", "\"", "}", "}", "}">>,
          Action(Str(<<"x">>), Dict(<<Entry(<<"a">>, Dict(<<Entry(<<"b">>, Str(<<"{">>))>>))>>)),
          TRUE)

\* TOOL: foo / PARAMS: {"k":"v"}
LabelParams ==
    Block("label", <<"T", "O", "O", "L", ":", " ", "f", "o", "o">> \o <<"\n">> \o <<"P", "A", "R", "A", "M", "S", ":", " ", "{", "\"", "k", "\"", ":", "\"", "v", "\"", "}">>,
          Action(Str(<<"f", "o", "o">>), Dict(<<Entry(<<"k">>, Str(<<"v">>))>>)), FALSE)

\* TOOL: t / PARAMS: {"k":"v"}
LabelKnown ==
    Block("label", <<"T", "O", "O", "L", ":", " ", "t">> \o <<"\n">> \o <<"P", "A", "R", "A", "M", "S", ":", " ", "{", "\"", "k", "\"", ":", "\"", "v", "\"", "}">>,
          Action(Str(T_t), Dict(<<Entry(<<"k">>, Str(<<"v">>))>>)), FALSE)

\* TOOL: foo, without parameters
LabelBare == Block("label", <<"T", "O", "O", "L", ":", " ", "f", "o", "o">>, Action(Str(<<"f", "o", "o">>), Dict(<<>>)), FALSE)

\* t(k="v")
CallDouble ==
    Block("call", <<"t", "(", "k", "=", "\"", "v", "\"", ")">>,
          Action(Str(T_t), Dict(<<Entry(<<"k">>, Str(<<"v">>))>>)), FALSE)

\* t(k='v')
CallSingle ==
    Block("call", <<"t", "(", "k", "=", "'", "v", "'", ")">>,
          Action(Str(T_t), Dict(<<Entry(<<"k">>, Str(<<"v">>))>>)), FALSE)

\* z(k="v"): the call syntax with a name that is not registered
CallUnknown ==
    Block("call", <<"z", "(", "k", "=", "\"", "v", "\"", ")">>,
          Action(Str(<<"z">>), Dict(<<Entry(<<"k">>, Str(<<"v">>))>>)), FALSE)

\* {'k': 1}: a brace block that is not JSON
BraceNotJson == Block("junk", <<"{", "'", "k", "'", ":", " ", "1", "}">>, None, FALSE)

\* {"k":"v"}: a JSON object without "action"
JsonNoAction == Block("junk", <<"{", "\"", "k", "\"", ":", "\"", "v", "\"", "}">>, None, FALSE)

\* {oops: a brace that is never closed
BraceOpen == Block("junk", <<"{", "o", "o", "p", "s">>, None, FALSE)

\* {"action": "t",}: an action object spoilt by a trailing comma
JsonTrailingComma == Block("junk", <<"{", "\"", "a", "c", "t", "i", "o", "n", "\"", ":", " ", "\"", "t", "\"", ",", "}">>, None, FALSE)

\* the wire formats of the action t with the value "fan (x)" for k
ParenAction == Action(Str(T_t), Dict(<<Entry(<<"k">>, Str(<<"f", "a", "n", " ", "(", "x", ")">>))>>))

\* {"action": "t", "parameters": {"k": "fan (x)"}}
JsonParen == Block("json", <<"{", "\"", "a", "c", "t", "i", "o", "n", "\"", ":", " ", "\"", "t", "\"", ",", " ", "\"", "p", "a", "r", "a", "m", "e", "t", "e", "r", "s", "\"", ":", " ", "{", "\"", "k", "\"", ":", " ", "\"", "f", "a", "n", " ", "(", "x", ")", "\"", "}", "}">>, ParenAction, FALSE)

\* TOOL: t / PARAMS: {"k": "fan (x)"}
LabelParen == Block("label", <<"T", "O", "O", "L", ":", " ", "t">> \o <<"\n">> \o <<"P", "A", "R", "A", "M", "S", ":", " ", "{", "\"", "k", "\"", ":", " ", "\"", "f", "a", "n", " ", "(", "x", ")", "\"", "}">>, ParenAction, FALSE)

\* t(k="fan (x)")
CallParenDouble == Block("call", <<"t", "(", "k", "=", "\"", "f", "a", "n", " ", "(", "x", ")", "\"", ")">>, ParenAction, FALSE)

\* t(k='fan (x)')
CallParenSingle == Block("call", <<"t", "(", "k", "=", "'", "f", "a", "n", " ", "(", "x", ")", "'", ")">>, ParenAction, FALSE)

BlockNames ==
    {"JsonNested", "JsonFlat", "JsonUnknown", "JsonCloseInString",
     "JsonOpenInString", "LabelParams", "LabelKnown", "LabelBare",
     "CallDouble", "CallSingle", "CallUnknown", "BraceNotJson",
     "JsonNoAction", "BraceOpen", "JsonTrailingComma", "JsonParen",
     "LabelParen", "CallParenDouble", "CallParenSingle"}

\* the block of a name; "" names the absent block
BlockOf(name) ==
    CASE name = "JsonNested" -> JsonNested
      [] name = "JsonFlat" -> JsonFlat
      [] name = "JsonUnknown" -> JsonUnknown
      [] name = "JsonCloseInString" -> JsonCloseInString
      [] name = "JsonOpenInString" -> JsonOpenInString
      [] name = "LabelParams" -> LabelParams
      [] name = "LabelKnown" -> LabelKnown
      [] name = "LabelBare" -> LabelBare
      [] name = "CallDouble" -> CallDouble
      [] name = "CallSingle" -> CallSingle
      [] name = "CallUnknown" -> CallUnknown
      [] name = "BraceNotJson" -> BraceNotJson
      [] name = "JsonNoAction" -> JsonNoAction
      [] name = "BraceOpen" -> BraceOpen
      [] name = "JsonTrailingComma" -> JsonTrailingComma
      [] name = "JsonParen" -> JsonParen
      [] name = "LabelParen" -> LabelParen
      [] name = "CallParenDouble" -> CallParenDouble
      [] name = "CallParenSingle" -> CallParenSingle
      [] OTHER -> NoBlock

ProseBefore == <<"I", " ", "w", "i", "l", "l", " ", "c", "h", "e", "c", "k", " ", "n", "o", "w", ".", " ">>

ProseAfter == <<" ", "P", "l", "e", "a", "s", "e", " ", "w", "a", "i", "t", ".">>

\* the text of a reply [pre, first, second, post]: pre and post tell whether
\* the prose stands before and after, first and second name the blocks
ReplyText(parts) ==
    (IF parts.pre THEN ProseBefore ELSE <<>>)
    \o BlockOf(parts.first).text
    \o (IF parts.first # "" /\ parts.second # "" THEN <<"\n">> ELSE <<>>)
    \o BlockOf(parts.second).text
    \o (IF parts.post THEN ProseAfter ELSE <<>>)

ParserInputs ==
    [pre : BOOLEAN, first : BlockNames \cup {""},
     second : BlockNames \cup {""}, post : BOOLEAN]

(***************************************************************************)
(* llm/llm_config.py: the providers and the two settings the router reads  *)
(***************************************************************************)
PROVIDERS == {"ollama", "anthropic", "openai", "google"}

\* the provider names a caller may pass: the known ones and an unknown one
ProviderNames == PROVIDERS \cup {"bogus"}

\* _DEFAULT_CONFIG["default_provider"] and _DEFAULT_CONFIG["failover_order"]
DefaultProvider == "ollama"

DefaultFailoverOrder == <<"ollama">>

RECURSIVE Filter(_, _)
\* [p for p in order if p in allowed]
Filter(order, allowed) ==
    IF order = <<>> THEN <<>>
    ELSE (IF Head(order) \in allowed THEN <<Head(order)>> ELSE <<>>)
         \o Filter(Tail(order), allowed)

\* LLMConfigManager.set_failover_order: the value stored as failover_order
set_failover_order(order) == Filter(order, PROVIDERS)

\* LLMConfigManager.set_default_provider: the value of default_provider after
\* the call (an unknown provider is refused)
set_default_provider(current, provider) ==
    IF provider \notin PROVIDERS THEN current ELSE provider

(***************************************************************************)
(* llm/llm_router.py.  What a provider does on one call is an outcome      *)
(* [ok, text]: it returns the reply text (ok) or raises an exception whose *)
(* str() is text.  A behaviour gives every known provider its outcome.     *)
(***************************************************************************)
Returns(text) == [ok |-> TRUE, text |-> text]

Raises(text) == [ok |-> FALSE, text |-> text]

\* the characters of a provider name
NameText(p) ==
    CASE p = "ollama" -> <<"o", "l", "l", "a", "m", "a">>
      [] p = "anthropic" -> <<"a", "n", "t", "h", "r", "o", "p", "i", "c">>
      [] p = "openai" -> <<"o", "p", "e", "n", "a", "i">>
      [] p = "google" -> <<"g", "o", "o", "g", "l", "e">>
      [] OTHER -> <<"b", "o", "g", "u", "s">>

\* LLMRouter._call_provider: for a name outside PROVIDERS the lookup
\* PROVIDERS[provider] raises KeyError, whose str() is the quoted name;
\* a known provider returns or raises as the behaviour says (a missing API
\* key, the network, the provider's API)
_call_provider(provider, behaviour) ==
    IF provider \notin PROVIDERS
    THEN Raises(<<"'">> \o NameText(provider) \o <<"'">>)
    ELSE behaviour[provider]

\* the failover providers appended without the test p != primary
AppendOthers_KeepsPrimary(order, failover, primary) == order \o failover

RECURSIVE AppendOthers(_, _, _)
\* for p in failover: if p != primary: order.append(p)
AppendOthers(order, failover, primary) ==
    IF failover = <<>> THEN order
    ELSE AppendOthers(IF Head(failover) # primary
                      THEN Append(order, Head(failover))
                      ELSE order,
                      Tail(failover), primary)

\* f"Error: All LLM providers failed. Last error: {last_error}"
AllFailedText(last_error) ==
    <<"E", "r", "r", "o", "r", ":", " ", "A", "l", "l", " ", "L", "L", "M", " ", "p", "r", "o", "v", "i", "d", "e", "r", "s", " ", "f", "a", "i", "l", "e", "d", ".", " ", "L", "a", "s", "t", " ", "e", "r", "r", "o", "r", ":", " ">> \o last_error

RECURSIVE TryProviders(_, _, _, _, _)
\* the loop "for p in order" of LLMRouter.chat from position i on: attempts
\* are the providers called so far, last_error the str() of the last
\* exception caught.  The result is [text, attempts, failed, raised]:
\* raised tells whether chat lets an exception out (it never does).
TryProviders(order, i, behaviour, attempts, last_error) ==
    IF i > Len(order)
    THEN [text |-> AllFailedText(last_error), attempts |-> attempts,
          failed |-> TRUE, raised |-> FALSE]
    ELSE LET outcome == _call_provider(order[i], behaviour) IN
         IF outcome.ok
         THEN [text |-> outcome.text, attempts |-> Append(attempts, order[i]),
               failed |-> FALSE, raised |-> FALSE]
         ELSE TryProviders(order, i + 1, behaviour,
                           Append(attempts, order[i]), outcome.text)

\* a router that lets the last exception out when every provider failed
chat_RaisesLastError(provider, use_failover, cfg_default, cfg_failover, behaviour) ==
    LET primary == IF provider = "" THEN cfg_default ELSE provider
        failover == IF use_failover THEN cfg_failover ELSE <<>>
        order == AppendOthers(<<primary>>, failover, primary)
        r == TryProviders(order, 1, behaviour, <<>>, <<"N", "o", "n", "e">>)
    IN  IF r.failed
        THEN [text |-> behaviour[order[Len(order)]].text, attempts |-> r.attempts,
              failed |-> TRUE, raised |-> TRUE]
        ELSE r

\* LLMRouter.chat(messages, provider, use_failover) under the configuration
\* (default_provider, failover_order); provider "" stands for None
chat(provider, use_failover, cfg_default, cfg_failover, behaviour) ==
    LET primary == IF provider = "" THEN cfg_default ELSE provider
        failover == IF use_failover THEN cfg_failover ELSE <<>>
        order == AppendOthers(<<primary>>, failover, primary)
    IN  TryProviders(order, 1, behaviour, <<>>, <<"N", "o", "n", "e">>)

(***************************************************************************)
(* base/agent_framework.py: Tool.execute and the think-act loop            *)
(***************************************************************************)
\* Agent.max_iterations
max_iterations == 10

\* the tool's underlying handler, called as func(**kwargs)
Handler(name, kwargs) ==
    IF name = T_b THEN Raises(<<"b", "o", "o", "m">>) ELSE Returns(<<"o", "k">>)

\* an execute that reports the handler's exception as a successful result
execute_ErrorAsResult(name, kwargs) ==
    json_dumps(Dict(<<Entry(<<"s", "u", "c", "c", "e", "s", "s">>, Bool(TRUE)),
                      Entry(<<"r", "e", "s", "u", "l", "t">>, Str(Handler(name, kwargs).text))>>))

\* Tool.execute(**kwargs): the JSON text of the handler's result or error
execute(name, kwargs) ==
    LET outcome == Handler(name, kwargs) IN
    IF outcome.ok
    THEN json_dumps(Dict(<<Entry(<<"s", "u", "c", "c", "e", "s", "s">>, Bool(TRUE)),
                           Entry(<<"r", "e", "s", "u", "l", "t">>, Str(outcome.text))>>))
    ELSE json_dumps(Dict(<<Entry(<<"s", "u", "c", "c", "e", "s", "s">>, Bool(FALSE)),
                           Entry(<<"e", "r", "r", "o", "r">>, Str(outcome.text))>>))

\* whether the call tool.execute(**params) itself raises TypeError: params
\* is no mapping, or one of its keys is execute's own parameter "self"
CallRaises(params) == params.k # "dict" \/ HasKey(params, <<"s", "e", "l", "f">>)

\* whether "tool_name not in self.tools" raises TypeError (unhashable name)
LookupRaises(tool_name) == ~Hashable(tool_name)

\* tool_name in self.tools
Registered(tool_name, tools) == tool_name.k = "str" /\ tool_name.a \in tools

Turn(role, content) == [role |-> role, content |-> content]

\* f"Error: Tool '{tool_name}' not found"
NotFoundText(tool_name) ==
    <<"E", "r", "r", "o", "r", ":", " ", "T", "o", "o", "l", " ", "'">> \o PyStr(tool_name) \o <<"'", " ", "n", "o", "t", " ", "f", "o", "u", "n", "d">>

\* f"Tool result: {tool_result}"
ToolResultText(tool_result) == <<"T", "o", "o", "l", " ", "r", "e", "s", "u", "l", "t", ":", " ">> \o tool_result

MaxIterationsText == <<"M", "a", "x", " ", "i", "t", "e", "r", "a", "t", "i", "o", "n", "s", " ", "r", "e", "a", "c", "h", "e", "d">>

\* Agent._call_llm: the router's reply, or the text of what it raised
_call_llm(reply) ==
    IF reply.raised THEN <<"E", "r", "r", "o", "r", " ", "c", "a", "l", "l", "i", "n", "g", " ", "L", "L", "M", ":", " ">> \o reply.text ELSE reply.text

\* what one pass of the loop body does: the memory after it, the outcome
\* ("return": a final answer, "continue": the next iteration, "raise": an
\* exception leaves think_and_act), the value returned and whether a tool
\* handler ran
Outcome(mem, outcome, res, executed) ==
    [memory |-> mem, outcome |-> outcome, result |-> res, executed |-> executed]

\* a lookup that returns the error text when the tool is not registered
RunTool_UnknownToolReturns(mem1, tools, tool_name, params) ==
    IF LookupRaises(tool_name) THEN Outcome(mem1, "raise", <<>>, FALSE)
    ELSE IF ~Registered(tool_name, tools)
    THEN Outcome(mem1, "return", NotFoundText(tool_name), FALSE)
    ELSE IF CallRaises(params) THEN Outcome(mem1, "raise", <<>>, FALSE)
    ELSE Outcome(Append(mem1, Turn("user", ToolResultText(execute(tool_name.a, params)))),
                 "continue", <<>>, TRUE)

\* a tool step that appends the tool result twice
RunTool_ResultTwice(mem1, tools, tool_name, params) ==
    IF LookupRaises(tool_name) THEN Outcome(mem1, "raise", <<>>, FALSE)
    ELSE IF ~Registered(tool_name, tools)
    THEN Outcome(Append(mem1, Turn("user", NotFoundText(tool_name))),
                 "continue", <<>>, FALSE)
    ELSE IF CallRaises(params) THEN Outcome(mem1, "raise", <<>>, FALSE)
    ELSE Outcome(mem1 \o <<Turn("user", ToolResultText(execute(tool_name.a, params))),
                           Turn("user", ToolResultText(execute(tool_name.a, params)))>>,
                 "continue", <<>>, TRUE)

\* lines 198-213: the tool is looked up and executed, and its result or the
\* error is appended as a user turn
RunTool(mem1, tools, tool_name, params) ==
    IF LookupRaises(tool_name) THEN Outcome(mem1, "raise", <<>>, FALSE)
    ELSE IF ~Registered(tool_name, tools)
    THEN Outcome(Append(mem1, Turn("user", NotFoundText(tool_name))),
                 "continue", <<>>, FALSE)
    ELSE IF CallRaises(params) THEN Outcome(mem1, "raise", <<>>, FALSE)
    ELSE Outcome(Append(mem1, Turn("user", ToolResultText(execute(tool_name.a, params)))),
                 "continue", <<>>, TRUE)

\* a dispatch that goes on to the next iteration when the reply holds no
\* action
Dispatch_NoActionContinues(mem1, reply, tools, action) ==
    IF ~Truthy(action) THEN Outcome(mem1, "continue", <<>>, FALSE)
    ELSE RunTool(mem1, tools, Get(action, K_action, None),
                 Get(action, K_parameters, Dict(<<>>)))

\* lines 194-196: without an action the reply is returned; with one,
\* tool_name = action.get("action") and
\* params = action.get("parameters", {})
Dispatch(mem1, reply, tools, action) ==
    IF ~Truthy(action) THEN Outcome(mem1, "return", reply, FALSE)
    ELSE RunTool(mem1, tools, Get(action, K_action, None),
                 Get(action, K_parameters, Dict(<<>>)))

\* a loop body that keeps only the newest turns: the transcript is replaced
\* by the reply
LoopBody_KeepsNewestOnly(transcript, reply, tools) ==
    Dispatch(<<Turn("assistant", reply)>>, reply, tools,
             _parse_action(reply, tools))

\* One pass of the loop body after the model call (lines 189-213) on the
\* transcript: the reply is appended as an assistant turn and parsed
LoopBody(transcript, reply, tools) ==
    Dispatch(Append(transcript, Turn("assistant", reply)), reply, tools,
             _parse_action(reply, tools))

(***************************************************************************)
(* ParserSpec: _parse_action applied once to a reply                       *)
(***************************************************************************)
\* the values of the variables of a component that is not running
ParserOff ==
    /\ reply_parts = [pre |-> FALSE, first |-> "", second |-> "", post |-> FALSE]
    /\ parsed = None
    /\ parser_pc = "off"

NoChat == [called |-> FALSE]

\* self.custom_agents_manager is None
NoManager == [present |-> FALSE, custom_agents |-> <<>>]

NoAnalysis == [user_request |-> <<>>, execution_steps |-> None, llm_analysis |-> <<>>]

NoResults ==
    [steps_executed |-> <<>>, final_response |-> <<>>, success |-> TRUE,
     errors |-> <<>>]

Threads == {"A", "B"}

LoopOff ==
    /\ memory = <<>>
    /\ pc = [th \in Threads |-> "idle"]
    /\ iteration = [th \in Threads |-> 0]
    /\ response = [th \in Threads |-> <<>>]
    /\ result = [th \in Threads |-> <<>>]
    /\ raised = [th \in Threads |-> FALSE]
    /\ calls = [th \in Threads |-> 0]
    /\ execs = [th \in Threads |-> 0]
    /\ entry_len = [th \in Threads |-> 0]
    /\ llm_log = [th \in Threads |-> NoChat]
    /\ prev_reply = <<>>
    /\ changes = 0
    /\ sessions = 0

OrchOff ==
    /\ custom_agents_manager = NoManager
    /\ analysis = NoAnalysis
    /\ orch_pc = "off"
    /\ step_index = 0
    /\ context = <<>>
    /\ results = NoResults
    /\ agent_calls = <<>>
    /\ agent_memory = <<>>

\* the scheduler before any job was added
NoMeta == [present |-> FALSE]

NoJob == [held |-> FALSE]

NoReturn == [op |-> "none"]

SchedOff ==
    /\ _meta = <<>>
    /\ meta_file = <<>>
    /\ jobs = <<>>
    /\ job_execution_history = <<>>
    /\ now = 0
    /\ sched_return = NoReturn

NoTask == "<none>"

FlowOff ==
    /\ workflow = <<>>
    /\ wf_status = "draft"
    /\ wf_pc = "off"
    /\ current_task_id = NoTask
    /\ visited = {}
    /\ execution_path = <<>>
    /\ wf_context = <<>>
    /\ branch_tasks = <<>>
    /\ branch_pos = 0
    /\ task_runs = <<>>

NoSpec == [present |-> FALSE]

NoRequest == [pc |-> "idle", query |-> <<>>, job_spec |-> NoSpec]

NoReply == [status |-> 0, kind |-> "none"]

PendingOff ==
    /\ _pending_confirmations = <<>>
    /\ req = <<>>
    /\ http_resp = <<>>
    /\ uuids = 0
    /\ created = <<>>
    /\ conversations = <<>>
    /\ served = 0

ServicesOff ==
    /\ SchedOff
    /\ FlowOff
    /\ PendingOff

ConfigDefault ==
    /\ default_provider = DefaultProvider
    /\ failover_order = DefaultFailoverOrder

ParserInit ==
    /\ reply_parts \in ParserInputs
    /\ parsed = None
    /\ parser_pc = "ready"
    /\ ConfigDefault
    /\ chat_log = NoChat
    /\ LoopOff
    /\ OrchOff
    /\ ServicesOff

Parse ==
    /\ parser_pc = "ready"
    /\ parsed' = _parse_action(ReplyText(reply_parts), Tools)
    /\ parser_pc' = "parsed"
    /\ UNCHANGED <<reply_parts, configVars, chat_log, loopVars, orchVars, serviceVars>>

ParserNext == Parse

ParserSpec == ParserInit /\ [][ParserNext]_vars

(***************************************************************************)
(* The parser claims, checked under ParserSpec                             *)
(***************************************************************************)
\* the reply holds a JSON action object and a TOOL:/PARAMS: block, in
\* either order
JsonAndLabel ==
    \/ BlockOf(reply_parts.first).kind = "json"
       /\ BlockOf(reply_parts.second).kind = "label"
    \/ BlockOf(reply_parts.first).kind = "label"
       /\ BlockOf(reply_parts.second).kind = "json"

JsonPart ==
    IF BlockOf(reply_parts.first).kind = "json"
    THEN BlockOf(reply_parts.first)
    ELSE BlockOf(reply_parts.second)

LabelPart ==
    IF BlockOf(reply_parts.first).kind = "label"
    THEN BlockOf(reply_parts.first)
    ELSE BlockOf(reply_parts.second)

C10_NestedObjectInProse ==
    (/\ parser_pc = "parsed"
     /\ reply_parts.pre
     /\ reply_parts.first \in {"JsonNested", "JsonCloseInString", "JsonOpenInString"}
     /\ reply_parts.second = ""
     /\ reply_parts.post)
        => parsed = BlockOf(reply_parts.first).val

\* C11: when the first brace block of the reply is not valid JSON,
\* _parse_action falls through to the labelled strategy: with
\* TOOL: foo / PARAMS: {"k":"v"} after that block it returns the action foo
\* with the parameters {k: "v"}.
C11_MalformedJsonFallsThrough ==
    (/\ parser_pc = "parsed"
     /\ reply_parts.first \in {"BraceNotJson", "BraceOpen", "JsonTrailingComma"}
     /\ reply_parts.second = "LabelParams")
        => parsed = Action(Str(<<"f", "o", "o">>),
                           Dict(<<Entry(<<"k">>, Str(<<"v">>))>>))

\* the reply {"action": "t",} / TOOL: foo / PARAMS: {"k":"v"} has been
\* parsed to the action foo
C11_Witness ==
    /\ parser_pc = "parsed"
    /\ reply_parts.first = "JsonTrailingComma"
    /\ reply_parts.second = "LabelParams"
    /\ parsed = LabelParams.val

\* the replies that hold one action for the registered tool t in one of the
\* wire formats, alone or after prose
WireFormats ==
    {"JsonFlat", "LabelKnown", "CallDouble", "CallSingle",
     "JsonParen", "LabelParen", "CallParenDouble", "CallParenSingle"}

\* C12, as claimed: for a registered tool t and a string value v, the JSON
\* object, the TOOL:/PARAMS: block and the call syntax with double or
\* single quotes, alone or preceded by prose, all parse to the action
\* {action: t, parameters: {k: v}}.
C12_WireFormatsAgree ==
    (/\ parser_pc = "parsed"
     /\ reply_parts.first \in WireFormats
     /\ reply_parts.second = ""
     /\ ~reply_parts.post)
        => parsed = BlockOf(reply_parts.first).val

(***************************************************************************)
(* RouterSpec: the configuration setters and LLMRouter.chat                *)
(***************************************************************************)
\* the longest failover order handed to set_failover_order
MaxOrderLen == 2

\* the names such an order is made of: two providers and an unknown name
OrderNames == {"ollama", "anthropic", "bogus"}

RECURSIVE SeqsUpTo(_, _)
\* the sequences over S of length at most n
SeqsUpTo(S, n) ==
    IF n = 0 THEN {<<>>}
    ELSE SeqsUpTo(S, n - 1)
         \cup {Append(s, x) : s \in SeqsUpTo(S, n - 1), x \in S}

\* what a provider replies when its call succeeds
OkText(p) == <<"O", "K", " ">> \o NameText(p)

\* str() of the exception a provider raises when its call fails
FailText(p) ==
    CASE p = "ollama" ->
           <<"H", "T", "T", "P", "C", "o", "n", "n", "e", "c", "t", "i", "o", "n", "P", "o", "o", "l", "(", "h", "o", "s", "t", "=", "'", "l", "o", "c", "a", "l", "h", "o", "s", "t", "'", ",", " ", "p", "o", "r", "t", "=", "1", "1", "4", "3", "4", ")", ":", " ", "M", "a", "x", " ", "r", "e", "t", "r", "i", "e", "s", " ", "e", "x", "c", "e", "e", "d", "e", "d">>
      [] p = "anthropic" -> <<"A", "n", "t", "h", "r", "o", "p", "i", "c", " ", "A", "P", "I", " ", "k", "e", "y", " ", "n", "o", "t", " ", "c", "o", "n", "f", "i", "g", "u", "r", "e", "d">>
      [] p = "openai" -> <<"E", "r", "r", "o", "r", " ", "c", "o", "d", "e", ":", " ", "4", "0", "1", " ", "-", " ", "{", "'", "e", "r", "r", "o", "r", "'", ":", " ", "'", "i", "n", "v", "a", "l", "i", "d", " ", "k", "e", "y", "'", "}">>
      [] OTHER -> <<"G", "o", "o", "g", "l", "e", " ", "A", "P", "I", " ", "k", "e", "y", " ", "n", "o", "t", " ", "c", "o", "n", "f", "i", "g", "u", "r", "e", "d">>

\* every provider either replies or raises
RouterBehaviours ==
    {[p \in PROVIDERS |-> IF p \in up THEN Returns(OkText(p)) ELSE Raises(FailText(p))] :
        up \in SUBSET PROVIDERS}

RouterInit ==
    /\ ConfigDefault
    /\ chat_log = NoChat
    /\ ParserOff
    /\ LoopOff
    /\ OrchOff
    /\ ServicesOff

SetDefaultProvider ==
    \E provider \in ProviderNames :
        /\ default_provider' = set_default_provider(default_provider, provider)
        /\ chat_log' = NoChat
        /\ UNCHANGED <<failover_order, parserVars, loopVars, orchVars, serviceVars>>

SetFailoverOrder ==
    \E order \in SeqsUpTo(OrderNames, MaxOrderLen) :
        /\ failover_order' = set_failover_order(order)
        /\ chat_log' = NoChat
        /\ UNCHANGED <<default_provider, parserVars, loopVars, orchVars, serviceVars>>

Chat ==
    \E provider \in ProviderNames \cup {""}, use_failover \in BOOLEAN,
       behaviour \in RouterBehaviours :
        /\ chat_log' =
              [called |-> TRUE, provider |-> provider,
               use_failover |-> use_failover, behaviour |-> behaviour,
               reply |-> chat(provider, use_failover, default_provider,
                              failover_order, behaviour)]
        /\ UNCHANGED <<configVars, parserVars, loopVars, orchVars, serviceVars>>

RouterNext == SetDefaultProvider \/ SetFailoverOrder \/ Chat

RouterSpec == RouterInit /\ [][RouterNext]_vars

(***************************************************************************)
(* The router claims, checked under RouterSpec                             *)
(***************************************************************************)
\* the provider the last chat call tried first
Primary == IF chat_log.provider = "" THEN default_provider ELSE chat_log.provider

\* the order of attempts the claims describe: the primary, then (with
\* failover) the configured failover providers that differ from it
ClaimedOrder ==
    <<Primary>> \o (IF chat_log.use_failover
                    THEN SelectSeq(failover_order, LAMBDA p : p # Primary)
                    ELSE <<>>)

\* whether provider p replies under the behaviour the last chat call met
Succeeds(p) == p \in PROVIDERS /\ chat_log.behaviour[p].ok

\* C7: chat tries the explicitly requested provider, or else the default
\* provider, first; then, only with failover, the configured failover
\* providers in their configured order; it stops at the first provider
\* that succeeds and returns that provider's reply.  With the order [A, B],
\* A raising and B returning "OK" it returns B's reply after exactly one
\* attempt on A followed by one on B.
C7_AttemptOrder ==
    chat_log.called =>
        LET attempts == chat_log.reply.attempts
            n == Len(attempts)
        IN  /\ n >= 1
            /\ n <= Len(ClaimedOrder)
            /\ attempts = SubSeq(ClaimedOrder, 1, n)
            /\ \A i \in 1..(n - 1) : ~Succeeds(attempts[i])
            /\ IF Succeeds(attempts[n])
               THEN /\ chat_log.reply.text = chat_log.behaviour[attempts[n]].text
                    /\ ~chat_log.reply.failed
               ELSE /\ n = Len(ClaimedOrder)
                    /\ chat_log.reply.failed
            /\ ~chat_log.reply.raised

\* the order is [ollama, anthropic], ollama raised, anthropic replied, and
\* chat returned anthropic's reply after one attempt on each
C7_Witness ==
    /\ chat_log.called
    /\ chat_log.provider = ""
    /\ chat_log.use_failover
    /\ default_provider = "ollama"
    /\ failover_order = <<"ollama", "anthropic">>
    /\ ~chat_log.behaviour["ollama"].ok
    /\ chat_log.reply.attempts = <<"ollama", "anthropic">>
    /\ chat_log.reply.text = <<"O", "K", " ", "a", "n", "t", "h", "r", "o", "p", "i", "c">>

\* C8, as claimed: within one chat call no provider is attempted more than
\* once, for every default provider and every failover order that
\* set_failover_order accepts.
C8_NoProviderTwice ==
    chat_log.called =>
        \A i, j \in 1..Len(chat_log.reply.attempts) :
            i # j => chat_log.reply.attempts[i] # chat_log.reply.attempts[j]

(***************************************************************************)
(* LoopSpec: one invocation of Agent.think_and_act.  The router is         *)
(* configured with the default provider ollama and the failover order      *)
(* [ollama, anthropic].                                                    *)
(***************************************************************************)
\* how often the model's reply may differ from its previous reply within a
\* run
MaxChanges == 1

\* the replies of the model
R_final == <<"T", "h", "e", " ", "f", "a", "n", " ", "i", "s", " ", "o", "n", ".">>

R_t == JsonFlat.text

R_b == <<"{", "\"", "a", "c", "t", "i", "o", "n", "\"", ":", " ", "\"", "b", "\"", ",", " ", "\"", "p", "a", "r", "a", "m", "e", "t", "e", "r", "s", "\"", ":", " ", "{", "}", "}">>

R_z == JsonUnknown.text

R_call_z == CallUnknown.text

R_label_foo == LabelParams.text

R_null_action == <<"{", "\"", "a", "c", "t", "i", "o", "n", "\"", ":", " ", "n", "u", "l", "l", "}">>

R_null_params == <<"{", "\"", "a", "c", "t", "i", "o", "n", "\"", ":", " ", "\"", "t", "\"", ",", " ", "\"", "p", "a", "r", "a", "m", "e", "t", "e", "r", "s", "\"", ":", " ", "n", "u", "l", "l", "}">>

R_list_params == <<"{", "\"", "a", "c", "t", "i", "o", "n", "\"", ":", " ", "\"", "t", "\"", ",", " ", "\"", "p", "a", "r", "a", "m", "e", "t", "e", "r", "s", "\"", ":", " ", "[", "1", "]", "}">>

R_str_params == <<"{", "\"", "a", "c", "t", "i", "o", "n", "\"", ":", " ", "\"", "t", "\"", ",", " ", "\"", "p", "a", "r", "a", "m", "e", "t", "e", "r", "s", "\"", ":", " ", "\"", "v", "\"", "}">>

R_self_param == <<"{", "\"", "a", "c", "t", "i", "o", "n", "\"", ":", " ", "\"", "t", "\"", ",", " ", "\"", "p", "a", "r", "a", "m", "e", "t", "e", "r", "s", "\"", ":", " ", "{", "\"", "s", "e", "l", "f", "\"", ":", " ", "1", "}", "}">>

R_list_action == <<"{", "\"", "a", "c", "t", "i", "o", "n", "\"", ":", " ", "[", "\"", "t", "\"", "]", "}">>

R_dict_action == <<"{", "\"", "a", "c", "t", "i", "o", "n", "\"", ":", " ", "{", "\"", "a", "\"", ":", " ", "1", "}", "}">>

Replies ==
    {R_final, R_t, R_b, R_z, R_call_z, R_label_foo, R_null_action, R_null_params,
     R_list_params, R_str_params, R_self_param, R_list_action, R_dict_action}

\* the first provider replies r
Replying(r) == [p \in PROVIDERS |-> Returns(r)]

\* the first provider raises, the others reply r
FailingOver(r) ==
    [p \in PROVIDERS |-> IF p = "ollama" THEN Raises(FailText(p)) ELSE Returns(r)]

\* every provider raises, the ones after the first with the message of q
AllDown(q) ==
    [p \in PROVIDERS |-> IF p = "ollama" THEN Raises(FailText(p)) ELSE Raises(FailText(q))]

LoopBehaviours ==
    {Replying(r) : r \in Replies}
    \cup {FailingOver(r) : r \in {R_final, R_t}}
    \cup {AllDown(q) : q \in {"ollama", "anthropic", "openai"}}

UserRequest == <<"t", "u", "r", "n", " ", "o", "n", " ", "t", "h", "e", " ", "f", "a", "n">>

LoopInit ==
    /\ default_provider = "ollama"
    /\ failover_order = set_failover_order(<<"ollama", "anthropic">>)
    /\ chat_log = NoChat
    /\ ParserOff
    /\ LoopOff
    /\ OrchOff
    /\ ServicesOff

\* the request of a second caller of the same agent
OtherRequest == <<"w", "h", "a", "t", " ", "t", "i", "m", "e", " ", "i", "s", " ", "i", "t">>

\* the request each caller passes to think_and_act
ThreadRequest(th) == IF th = "A" THEN UserRequest ELSE OtherRequest

\* base_prompt: the same text on every call of one agent
BasePrompt == <<"Y", "o", "u", " ", "a", "r", "e", " ", "n", ",", " ", "a", " ", "r", " ", "a", "g", "e", "n", "t", ".">>

\* a message list that holds only the last turn of the transcript
Messages_LastTurnOnly(transcript) ==
    <<Turn("system", BasePrompt)>>
    \o (IF transcript = <<>> THEN <<>> ELSE <<transcript[Len(transcript)]>>)

\* messages = [{"role": "system", "content": base_prompt}] + self.memory
Messages(transcript) == <<Turn("system", BasePrompt)>> \o transcript

\* think_and_act is entered: the user's request is appended to the memory
Begin(th) ==
    /\ pc[th] = "idle"
    /\ memory' = Append(memory, Turn("user", ThreadRequest(th)))
    /\ entry_len' = [entry_len EXCEPT ![th] = Len(memory)]
    /\ iteration' = [iteration EXCEPT ![th] = 0]
    /\ pc' = [pc EXCEPT ![th] = "loop"]
    /\ UNCHANGED <<response, result, raised, calls, execs, llm_log,
                   prev_reply, changes, sessions, configVars, chat_log,
                   parserVars, orchVars, serviceVars>>

\* an iteration starts: the messages are built and
\* response = self._call_llm(messages), the providers behaving in one of
\* the ways given
CallLLMFrom(th, behaviours) ==
    /\ pc[th] = "loop"
    /\ iteration[th] < max_iterations
    /\ \E behaviour \in behaviours :
          LET reply == chat("", TRUE, default_provider, failover_order, behaviour)
              text == _call_llm(reply)
              changed == prev_reply # <<>> /\ text # prev_reply
          IN  /\ changed => changes < MaxChanges
              /\ response' = [response EXCEPT ![th] = text]
              /\ llm_log' = [llm_log EXCEPT ![th] =
                                [called |-> TRUE, behaviour |-> behaviour,
                                 reply |-> reply,
                                 messages |-> Messages(memory)]]
              /\ prev_reply' = text
              /\ changes' = IF changed THEN changes + 1 ELSE changes
    /\ calls' = [calls EXCEPT ![th] = calls[th] + 1]
    /\ pc' = [pc EXCEPT ![th] = "respond"]
    /\ UNCHANGED <<memory, iteration, result, raised, execs, entry_len,
                   sessions, configVars, chat_log, parserVars, orchVars, serviceVars>>

CallLLM(th) == CallLLMFrom(th, LoopBehaviours)

\* what the invocation th does with the outcome of its loop body
Settle(th, body) ==
    /\ memory' = body.memory
    /\ execs' = [execs EXCEPT ![th] = IF body.executed THEN execs[th] + 1 ELSE execs[th]]
    /\ raised' = [raised EXCEPT ![th] = body.outcome = "raise"]
    /\ result' = [result EXCEPT ![th] = body.result]
    /\ iteration' = [iteration EXCEPT ![th] =
          IF body.outcome = "continue" THEN iteration[th] + 1 ELSE iteration[th]]
    /\ pc' = [pc EXCEPT ![th] = IF body.outcome = "continue" THEN "loop" ELSE "done"]

\* the rest of the iteration: the reply is recorded and parsed, the tool
\* looked up and executed
Act(th) ==
    /\ pc[th] = "respond"
    /\ Settle(th, LoopBody(memory, response[th], Tools))
    /\ UNCHANGED <<response, calls, entry_len, llm_log, prev_reply, changes,
                   sessions, configVars, chat_log, parserVars, orchVars, serviceVars>>

\* the for loop is exhausted: return "Max iterations reached"
Exhaust(th) ==
    /\ pc[th] = "loop"
    /\ iteration[th] = max_iterations
    /\ result' = [result EXCEPT ![th] = MaxIterationsText]
    /\ pc' = [pc EXCEPT ![th] = "done"]
    /\ UNCHANGED <<memory, iteration, response, raised, calls, execs,
                   entry_len, llm_log, prev_reply, changes, sessions,
                   configVars, chat_log, parserVars, orchVars, serviceVars>>

LoopNext == Begin("A") \/ CallLLM("A") \/ Act("A") \/ Exhaust("A")

LoopSpec == LoopInit /\ [][LoopNext]_vars

(***************************************************************************)
(* The loop claims, checked under LoopSpec                                 *)
(***************************************************************************)
\* the assistant turns the invocation th has appended to the memory
RepliesOf(th) ==
    {i \in (entry_len[th] + 1)..Len(memory) : memory[i].role = "assistant"}

\* the invocation th takes the step that handles its reply
Handles(th) == pc[th] = "respond" /\ pc'[th] # "respond"

\* C1, as claimed: when every reply of the model parses to an action,
\* think_and_act makes exactly 10 model calls and returns the sentinel
\* "Max iterations reached".
C1_AlwaysActionRunsTenCalls ==
    \A th \in Threads :
        (/\ pc[th] = "done"
         /\ \A i \in RepliesOf(th) : _parse_action(memory[i].content, Tools) # None)
            => /\ calls[th] = max_iterations
               /\ result[th] = MaxIterationsText
               /\ ~raised[th]

\* C2: when the parsed action names a tool that is not registered,
\* think_and_act does not raise and runs no tool; it appends the reply and
\* one user turn "Error: Tool '<name>' not found" and goes on to the next
\* iteration of the loop.
C2_UnknownToolContinues ==
    [][\A th \in Threads :
          LET action == _parse_action(response[th], Tools)
              tool_name == Get(action, K_action, None)
          IN  (/\ Handles(th)
               /\ action # None
               /\ Hashable(tool_name)
               /\ ~(tool_name.k = "str" /\ tool_name.a \in Tools))
                  => /\ ~raised'[th]
                     /\ execs'[th] = execs[th]
                     /\ memory' = memory
                          \o <<Turn("assistant", response[th]),
                               Turn("user", <<"E", "r", "r", "o", "r", ":", " ", "T", "o", "o", "l", " ", "'">> \o PyStr(tool_name) \o <<"'", " ", "n", "o", "t", " ", "f", "o", "u", "n", "d">>)>>
                     /\ pc'[th] = "loop"
                     /\ iteration'[th] = iteration[th] + 1
      ]_vars

\* the model named the unregistered tool z, the error turn was appended and
\* the model has been called again
C2_Witness ==
    /\ pc["A"] = "respond"
    /\ calls["A"] = 2
    /\ execs["A"] = 0
    /\ Len(memory) = 3
    /\ memory[2] = Turn("assistant", R_z)
    /\ memory[3] = Turn("user", <<"E", "r", "r", "o", "r", ":", " ", "T", "o", "o", "l", " ", "'", "z", "'", " ", "n", "o", "t", " ", "f", "o", "u", "n", "d">>)

\* C3: when the handler of the tool raises an exception with message m,
\* think_and_act does not raise; it appends a user turn that carries
\* "Tool result: " and the serialized result
\* {"success": false, "error": m}, and the loop goes on.
C3_ToolExceptionIsolated ==
    [][\A th \in Threads :
          LET action == _parse_action(response[th], Tools)
              tool_name == Get(action, K_action, None)
              params == Get(action, K_parameters, Dict(<<>>))
              turn == memory'[Len(memory) + 2]
              label == <<"T", "o", "o", "l", " ", "r", "e", "s", "u", "l", "t", ":", " ">>
          IN  (/\ Handles(th)
               /\ action # None
               /\ tool_name.k = "str"
               /\ tool_name.a \in Tools
               /\ params.k = "dict"
               /\ ~HasKey(params, <<"s", "e", "l", "f">>)
               /\ ~Handler(tool_name.a, params).ok)
                  => /\ ~raised'[th]
                     /\ Len(memory') = Len(memory) + 2
                     /\ SubSeq(memory', 1, Len(memory) + 1)
                          = Append(memory, Turn("assistant", response[th]))
                     /\ turn.role = "user"
                     /\ StartsWithAt(turn.content, 1, label)
                     /\ json_loads(SubSeq(turn.content, Len(label) + 1,
                                          Len(turn.content))).v
                          = Dict(<<Entry(<<"s", "u", "c", "c", "e", "s", "s">>, Bool(FALSE)),
                                   Entry(<<"e", "r", "r", "o", "r">>,
                                         Str(Handler(tool_name.a, params).text))>>)
                     /\ pc'[th] = "loop"
                     /\ iteration'[th] = iteration[th] + 1
      ]_vars

\* the handler of tool b raised "boom", the failure was appended as a tool
\* result and the model has been called again
C3_Witness ==
    /\ pc["A"] = "respond"
    /\ calls["A"] = 2
    /\ execs["A"] = 1
    /\ ~raised["A"]
    /\ Len(memory) = 3
    /\ memory[2] = Turn("assistant", R_b)
    /\ memory[3] = Turn("user", <<"T", "o", "o", "l", " ", "r", "e", "s", "u", "l", "t", ":", " ", "{", "\"", "s", "u", "c", "c", "e", "s", "s", "\"", ":", " ", "f", "a", "l", "s", "e", ",", " ", "\"", "e", "r", "r", "o", "r", "\"", ":", " ", "\"", "b", "o", "o", "m", "\"", "}">>)

\* C4, as claimed: think_and_act never raises, whatever the model replies
\* and whatever the JSON types of the "action" and "parameters" fields.
C4_NeverRaises == \A th \in Threads : ~raised[th]

\* C5: when the reply holds no parseable action, think_and_act appends it
\* as an assistant turn and returns it verbatim, without running a tool;
\* after the return the invocation makes no model call and runs no tool.
C5_NoActionReturnsReply ==
    [][\A th \in Threads :
          /\ (Handles(th) /\ _parse_action(response[th], Tools) = None)
                => /\ pc'[th] = "done"
                   /\ result'[th] = response[th]
                   /\ ~raised'[th]
                   /\ memory' = Append(memory, Turn("assistant", response[th]))
                   /\ execs'[th] = execs[th]
                   /\ calls'[th] = calls[th]
          /\ pc[th] = "done"
                => /\ pc'[th] # "respond"
                   /\ pc'[th] = "done"
                        => calls'[th] = calls[th] /\ execs'[th] = execs[th]
      ]_vars

\* after one tool call the model answered in prose, and think_and_act
\* returned that answer
C5_Witness ==
    /\ pc["A"] = "done"
    /\ ~raised["A"]
    /\ calls["A"] = 2
    /\ execs["A"] = 1
    /\ result["A"] = R_final
    /\ memory[Len(memory)] = Turn("assistant", R_final)

\* the order in which the model call of think_and_act tries the providers
LoopOrder ==
    <<default_provider>>
    \o SelectSeq(failover_order, LAMBDA p : p # default_provider)

\* every provider the last model call of th tried has raised
AllProvidersFailed(th) ==
    /\ llm_log[th].called
    /\ \A i \in 1..Len(LoopOrder) : ~llm_log[th].behaviour[LoopOrder[i]].ok

\* C6: when every provider the router tries fails, the model call yields
\* the text "Error: All LLM providers failed. Last error: <message of the
\* last provider>" instead of raising; the text holds no action, so
\* think_and_act appends it as an assistant turn, returns it and ends.
C6_AllProvidersFail ==
    [][\A th \in Threads :
          (pc[th] = "respond" /\ AllProvidersFailed(th))
              => /\ response[th] =
                        <<"E", "r", "r", "o", "r", ":", " ", "A", "l", "l", " ", "L", "L", "M", " ", "p", "r", "o", "v", "i", "d", "e", "r", "s", " ", "f", "a", "i", "l", "e", "d", ".", " ", "L", "a", "s", "t", " ", "e", "r", "r", "o", "r", ":", " ">>
                        \o llm_log[th].behaviour[LoopOrder[Len(LoopOrder)]].text
                 /\ ~llm_log[th].reply.raised
                 /\ Handles(th)
                       => /\ pc'[th] = "done"
                          /\ result'[th] = response[th]
                          /\ ~raised'[th]
                          /\ memory' = Append(memory, Turn("assistant", response[th]))
                          /\ execs'[th] = execs[th]
                          /\ calls'[th] = calls[th]
      ]_vars

\* ollama and anthropic both raised, and think_and_act returned the
\* router's error text
C6_Witness ==
    /\ pc["A"] = "done"
    /\ ~raised["A"]
    /\ calls["A"] = 1
    /\ llm_log["A"].reply.attempts = <<"ollama", "anthropic">>
    /\ result["A"] = <<"E", "r", "r", "o", "r", ":", " ", "A", "l", "l", " ", "L", "L", "M", " ", "p", "r", "o", "v", "i", "d", "e", "r", "s", " ", "f", "a", "i", "l", "e", "d", ".", " ", "L", "a", "s", "t", " ", "e", "r", "r", "o", "r", ":", " ", "A", "n", "t", "h", "r", "o", "p", "i", "c", " ", "A", "P", "I", " ", "k", "e", "y", " ", "n", "o", "t", " ", "c", "o", "n", "f", "i", "g", "u", "r", "e", "d">>

\* the replies that name a tool that is not registered, one per wire
\* format, with the action each of them spells
UnknownToolReplies == {R_z, R_label_foo, R_call_z}

SpelledAction(reply) ==
    CASE reply = R_z -> JsonUnknown.val
      [] reply = R_label_foo -> LabelParams.val
      [] OTHER -> CallUnknown.val

\* the loop records the reply and the "Tool not found" error turn for the
\* tool the reply spells
RecordsNotFound(th) ==
    memory' = memory
        \o <<Turn("assistant", response[th]),
             Turn("user", <<"E", "r", "r", "o", "r", ":", " ", "T", "o", "o", "l", " ", "'">>
                          \o SpelledAction(response[th]).c[1].val.a
                          \o <<"'", " ", "n", "o", "t", " ", "f", "o", "u", "n", "d">>)>>

\* C13, as claimed: in each of the three wire formats _parse_action returns
\* the action with the unregistered name, and the loop then records the
\* "Tool not found" error turn.
C13_UnknownNameRejectedByLoop ==
    [][\A th \in Threads :
          (Handles(th) /\ response[th] \in UnknownToolReplies)
              => /\ _parse_action(response[th], Tools) = SpelledAction(response[th])
                 /\ RecordsNotFound(th)
      ]_vars

\* C13, amended: in the JSON and the TOOL:/PARAMS: format _parse_action
\* returns the action with the unregistered name and the loop records the
\* "Tool not found" error turn; in the call syntax the name is checked
\* during parsing: _parse_action returns None and the loop returns the
\* reply as the final answer, without an error turn.
C13_UnknownNameByFormat ==
    [][\A th \in Threads :
          (Handles(th) /\ response[th] \in UnknownToolReplies)
              => IF response[th] = R_call_z
                 THEN /\ _parse_action(response[th], Tools) = None
                      /\ memory' = Append(memory, Turn("assistant", response[th]))
                      /\ pc'[th] = "done"
                      /\ result'[th] = response[th]
                 ELSE /\ _parse_action(response[th], Tools) = SpelledAction(response[th])
                      /\ RecordsNotFound(th)
                      /\ pc'[th] = "loop"
      ]_vars

\* the model named the unregistered tool foo in the TOOL:/PARAMS: format
\* and the loop recorded the error turn
C13_Witness ==
    /\ pc["A"] = "loop"
    /\ Len(memory) = 3
    /\ memory[2] = Turn("assistant", R_label_foo)
    /\ memory[3] = Turn("user", <<"E", "r", "r", "o", "r", ":", " ", "T", "o", "o", "l", " ", "'", "f", "o", "o", "'", " ", "n", "o", "t", " ", "f", "o", "u", "n", "d">>)

(***************************************************************************)
(* agents/planning_agent.py: the LLMSequentialOrchestrator.  The text      *)
(* operations of Python it uses come first.                                *)
(***************************************************************************)
UpperLetters ==
    <<"A", "B", "C", "D", "E", "F", "G", "H", "I", "J", "K", "L", "M",
      "N", "O", "P", "Q", "R", "S", "T", "U", "V", "W", "X", "Y", "Z">>

LowerLetters ==
    <<"a", "b", "c", "d", "e", "f", "g", "h", "i", "j", "k", "l", "m",
      "n", "o", "p", "q", "r", "s", "t", "u", "v", "w", "x", "y", "z">>

\* str.lower() of one character
LowerChar(ch) ==
    IF \E n \in 1..26 : UpperLetters[n] = ch
    THEN LowerLetters[CHOOSE n \in 1..26 : UpperLetters[n] = ch]
    ELSE ch

\* s.lower()
Lower(s) == [n \in 1..Len(s) |-> LowerChar(s[n])]

\* the greatest member of a set of indices, 0 when the set is empty
LastIn(S) == IF S = {} THEN 0 ELSE CHOOSE x \in S : \A y \in S : x >= y

\* s.strip()
Strip(s) ==
    IF \A n \in 1..Len(s) : s[n] \in Whitespace
    THEN <<>>
    ELSE SubSeq(s, FirstIn({n \in 1..Len(s) : s[n] \notin Whitespace}),
                   LastIn({n \in 1..Len(s) : s[n] \notin Whitespace}))

\* t in s, of two strings
Contains(s, t) ==
    \E n \in 1..(Len(s) - Len(t) + 1) : SubSeq(s, n, n + Len(t) - 1) = t

DigitChars == <<"0", "1", "2", "3", "4", "5", "6", "7", "8", "9">>

RECURSIVE IntText(_)
\* str(n) of a natural number
IntText(n) ==
    IF n < 10 THEN <<DigitChars[n + 1]>>
    ELSE IntText(n \div 10) \o <<DigitChars[(n % 10) + 1]>>

RECURSIVE ReprItems(_)
ReprItems(names) ==
    IF names = <<>> THEN <<>>
    ELSE <<"'">> \o Head(names) \o <<"'">>
         \o (IF Len(names) > 1 THEN <<",", " ">> ELSE <<>>)
         \o ReprItems(Tail(names))

\* str() of a list of strings, as an f-string formats it
ReprList(names) == <<"[">> \o ReprItems(names) \o <<"]">>

\* type(v).__name__
TypeName(v) ==
    CASE v.k = "none" -> <<"N", "o", "n", "e", "T", "y", "p", "e">>
      [] v.k \in {"true", "false"} -> <<"b", "o", "o", "l">>
      [] v.k = "num" -> <<"i", "n", "t">>
      [] v.k = "str" -> <<"s", "t", "r">>
      [] v.k = "list" -> <<"l", "i", "s", "t">>
      [] OTHER -> <<"d", "i", "c", "t">>

(***************************************************************************)
(* The orchestrator's constants and its registry of agents                 *)
(***************************************************************************)
\* LLMSequentialOrchestrator.max_steps
max_steps == 5

\* the keys of self.agents, in the order api_server.py registers them
BuiltinAgents == <<<<"h", "o", "m", "e">>, <<"c", "a", "l", "e", "n", "d", "a", "r">>, <<"f", "i", "n", "a", "n", "c", "e">>>>

\* a CustomAgentManager holding the agents given, in the order of its dict
Manager(agents) == [present |-> TRUE, custom_agents |-> agents]

\* one custom agent: its id (eight lowercase hexadecimal digits) and name
CustomAgent(id, name) == [id |-> id, name |-> name]

\* CustomAgentManager.get_agent: the position of the agent with this id, 0
\* for None
get_agent(manager, agent_id) ==
    FirstIn({n \in 1..Len(manager.custom_agents) :
                manager.custom_agents[n].id = agent_id})

K_step == <<"s", "t", "e", "p">>
K_agent == <<"a", "g", "e", "n", "t">>
K_task == <<"t", "a", "s", "k">>
K_context == <<"c", "o", "n", "t", "e", "x", "t">>
K_execution_steps == <<"e", "x", "e", "c", "u", "t", "i", "o", "n", "_", "s", "t", "e", "p", "s">>
K_reasoning == <<"r", "e", "a", "s", "o", "n", "i", "n", "g">>
K_agents_needed == <<"a", "g", "e", "n", "t", "s", "_", "n", "e", "e", "d", "e", "d">>

(***************************************************************************)
(* analyze_request                                                         *)
(***************************************************************************)
\* LLMSequentialOrchestrator._call_ollama: the router's reply, or the text
\* of what it raised
_call_ollama(reply) ==
    IF reply.raised THEN <<"E", "r", "r", "o", "r", " ", "c", "a", "l", "l", "i", "n", "g", " ", "L", "L", "M", ":", " ">> \o reply.text ELSE reply.text

\* the step both fallbacks of _parse_analysis build
FallbackSteps(user_request) ==
    List(<<Entry(<<>>,
           Dict(<<Entry(K_step, Num(<<"1">>)),
                  Entry(K_agent, Str(<<"h", "o", "m", "e">>)),
                  Entry(K_task, Str(<<"H", "a", "n", "d", "l", "e", " ", "u", "s", "e", "r", " ", "r", "e", "q", "u", "e", "s", "t">>)),
                  Entry(K_context, Str(user_request))>>))>>)

\* the execution_steps of the plan read from json_str
StepsOf(loaded, user_request) ==
    IF ~loaded.ok THEN FallbackSteps(user_request)
    ELSE IF Truthy(Get(loaded.v, K_execution_steps, List(<<>>)))
         THEN Get(loaded.v, K_execution_steps, List(<<>>))
         ELSE FallbackSteps(user_request)

\* the match of r'\{.*\}' under re.DOTALL: from the first '{' to the last
\* '}' after it
BraceSpan(s, first, last) ==
    IF first = 0 \/ last < first THEN NoMatch
    ELSE Match(SubSeq(s, first, last), <<>>)

json_match(llm_response) ==
    BraceSpan(llm_response, FindFrom(llm_response, 1, "{"),
              LastIn({n \in 1..Len(llm_response) : llm_response[n] = "}"}))

ParsedSteps(m, user_request) ==
    IF m.found THEN StepsOf(json_loads(m.g1), user_request) ELSE List(<<>>)

_parse_analysis(llm_response, user_request) ==
    [user_request |-> user_request,
     execution_steps |-> ParsedSteps(json_match(llm_response), user_request),
     llm_analysis |-> llm_response]


(***************************************************************************)
(* execute_sequential_plan: the lookup of a step's agent                   *)
(***************************************************************************)
HexChars == {"a", "b", "c", "d", "e", "f"} \cup Digits

\* whether r'\(([a-f0-9]{8})\)' matches at index p
IdAt(s, p) ==
    /\ p + 9 <= Len(s)
    /\ s[p] = "("
    /\ s[p + 9] = ")"
    /\ \A n \in 1..8 : s[p + n] \in HexChars

IdFrom(s, p) == IF p = 0 THEN NoMatch ELSE Match(SubSeq(s, p + 1, p + 8), <<>>)

\* re.search(r'\(([a-f0-9]{8})\)', agent_id)
id_match(s) == IdFrom(s, FirstIn({p \in 1..Len(s) : IdAt(s, p)}))

\* the agent a lookup found: agent_type is "none" where agent stays None
Found(agent_type, agent_id) == [agent_type |-> agent_type, agent_id |-> agent_id]

\* ca.get("name", "").lower().strip()
ca_name(ca) == Strip(Lower(ca.name))

\* strategy 4: the first custom agent whose name is the reference
ExactName(agents, agent_name_lower, original_name_lower) ==
    FirstIn({n \in 1..Len(agents) :
                \/ ca_name(agents[n]) = agent_name_lower
                \/ ca_name(agents[n]) = original_name_lower})

\* strategy 5: the first custom agent whose name holds the reference or is
\* held by it
PartialName(agents, original_name_lower) ==
    FirstIn({n \in 1..Len(agents) :
                \/ Contains(original_name_lower, ca_name(agents[n]))
                \/ Contains(ca_name(agents[n]), original_name_lower)})

ByName(agents, agent_id, exact, partial) ==
    IF exact # 0 THEN Found("custom", agents[exact].id)
    ELSE IF partial # 0 THEN Found("custom", agents[partial].id)
    ELSE Found("none", agent_id)

InSeq(s, x) == \E n \in 1..Len(s) : s[n] = x

\* strategies 2 to 5 for agent_id, the reference after strategy 1
LookupId(manager, agent_id, original_agent_id) ==
    IF InSeq(BuiltinAgents, agent_id) THEN Found("built-in", agent_id)
    ELSE IF ~manager.present THEN Found("none", agent_id)
    ELSE IF get_agent(manager, agent_id) # 0 THEN Found("custom", agent_id)
    ELSE ByName(manager.custom_agents, agent_id,
                ExactName(manager.custom_agents, Strip(Lower(agent_id)),
                          Strip(Lower(original_agent_id))),
                PartialName(manager.custom_agents,
                            Strip(Lower(original_agent_id))))

\* a lookup that goes by the reference as written, never by an id in
\* parentheses
Lookup_NoIdExtraction(manager, original_agent_id) ==
    LookupId(manager, original_agent_id, original_agent_id)

\* the agent the step's reference stands for
Lookup(manager, original_agent_id) ==
    LookupId(manager,
             IF id_match(original_agent_id).found
             THEN id_match(original_agent_id).g1
             ELSE original_agent_id,
             original_agent_id)

\* the names of the custom agents, [] without a manager
CustomNames(manager) ==
    [n \in 1..Len(manager.custom_agents) |-> manager.custom_agents[n].name]

\* str() of the ValueError raised when no strategy found an agent
AgentNotFoundText(manager, original_agent_id) ==
    <<"A", "g", "e", "n", "t", " ", "'">> \o original_agent_id \o <<"'", " ", "n", "o", "t", " ", "f", "o", "u", "n", "d", ".", " ", "A", "v", "a", "i", "l", "a", "b", "l", "e", ":", " ">>
    \o ReprList(BuiltinAgents) \o <<",", " ", "C", "u", "s", "t", "o", "m", ":", " ">> \o ReprList(CustomNames(manager))

\* str() of the TypeError re.search raises for a reference that is no str
NotStringText(v) ==
    <<"e", "x", "p", "e", "c", "t", "e", "d", " ", "s", "t", "r", "i", "n", "g", " ", "o", "r", " ", "b", "y", "t", "e", "s", "-", "l", "i", "k", "e", " ", "o", "b", "j", "e", "c", "t", ",", " ", "g", "o", "t", " ", "'">> \o TypeName(v) \o <<"'">>

(***************************************************************************)
(* execute_sequential_plan: one pass of the loop body                      *)
(***************************************************************************)
\* the entry of a step that completed
Completed(step, agent_id, agent_type, task, resp) ==
    [step |-> step, agent |-> Str(agent_id), agent_type |-> agent_type,
     task |-> task, response |-> resp, error |-> <<>>, status |-> "completed"]

\* the entry of a step that failed: agent and task as the plan gives them
FailedEntry(step, agent, task, error_msg) ==
    [step |-> step, agent |-> agent, agent_type |-> "", task |-> task,
     response |-> <<>>, error |-> error_msg, status |-> "failed"]

\* f"Error in step {step_index + 1} ({step.get('agent')}): {str(e)}"
ErrorMsg(idx, agent, text) ==
    <<"E", "r", "r", "o", "r", " ", "i", "n", " ", "s", "t", "e", "p", " ">> \o IntText(idx + 1) \o <<" ", "(">> \o PyStr(agent) \o <<")", ":", " ">> \o text

\* a message that hands the accumulated context to custom agents as well
StepMessage_ContextForAll(agent_type, idx, ctx, request, task, step_context) ==
    IF idx > 0
    THEN ctx \o <<"\n", "\n", "T", "a", "s", "k", ":", " ">> \o PyStr(task) \o <<"\n", "C", "o", "n", "t", "e", "x", "t", ":", " ">> \o PyStr(step_context)
    ELSE IF Truthy(step_context) THEN PyStr(step_context) ELSE request

\* the message a step's agent is sent
StepMessage(agent_type, idx, ctx, request, task, step_context) ==
    IF agent_type = "custom" THEN request
    ELSE IF idx > 0
         THEN ctx \o <<"\n", "\n", "T", "a", "s", "k", ":", " ">> \o PyStr(task) \o <<"\n", "C", "o", "n", "t", "e", "x", "t", ":", " ">> \o PyStr(step_context)
         ELSE IF Truthy(step_context) THEN PyStr(step_context) ELSE request

\* what the loop appends to context after a completed step
ContextLine(idx, agent_type, agent_id, task, resp) ==
    <<"\n", "S", "t", "e", "p", " ">> \o IntText(idx + 1) \o <<" ", "(">> \o agent_type \o <<" ", "a", "g", "e", "n", "t", ":", " ">> \o agent_id
    \o <<")", " ", "-", " ">> \o PyStr(task) \o <<":", "\n">> \o resp

AgentTypeText(agent_type) ==
    IF agent_type = "custom" THEN <<"c", "u", "s", "t", "o", "m">> ELSE <<"b", "u", "i", "l", "t", "-", "i", "n">>

\* str() of the ValueError _call_custom_agent raises
CustomFailedText(agent_id, text) ==
    <<"F", "a", "i", "l", "e", "d", " ", "t", "o", " ", "e", "x", "e", "c", "u", "t", "e", " ", "c", "u", "s", "t", "o", "m", " ", "a", "g", "e", "n", "t", " ">> \o agent_id \o <<":", " ">> \o text

\* what one pass does: whether an exception leaves the loop, the entry
\* appended to steps_executed, the messages appended to errors, the context
\* after it and the agents invoked
Pass(raised_out, entries, errs, ctx, invoked) ==
    [raised |-> raised_out, entries |-> entries, errors |-> errs,
     context |-> ctx, invoked |-> invoked]

\* an except branch that records the failed entry and no error message
FailStep_SilentError(idx, step, ctx, text, invoked) ==
    Pass(FALSE,
         <<FailedEntry(idx + 1, Get(step, K_agent, None), Get(step, K_task, None),
                       ErrorMsg(idx, Get(step, K_agent, None), text))>>,
         <<>>, ctx, invoked)

\* the except branch
FailStep(idx, step, ctx, text, invoked) ==
    Pass(FALSE,
         <<FailedEntry(idx + 1, Get(step, K_agent, None), Get(step, K_task, None),
                       ErrorMsg(idx, Get(step, K_agent, None), text))>>,
         <<ErrorMsg(idx, Get(step, K_agent, None), text)>>, ctx, invoked)

Invocation(agent_type, agent_id, message) ==
    [agent_type |-> agent_type, agent |-> agent_id, message |-> message]

\* the agent was found: it is sent its message, and answers or raises
CallAgent(idx, step, ctx, found, message, outcome) ==
    IF outcome.ok
    THEN Pass(FALSE,
              <<Completed(idx + 1, found.agent_id, found.agent_type,
                          Get(step, K_task, None), outcome.text)>>,
              <<>>,
              ctx \o ContextLine(idx, AgentTypeText(found.agent_type),
                                 found.agent_id, Get(step, K_task, None),
                                 outcome.text),
              <<Invocation(found.agent_type, found.agent_id, message)>>)
    ELSE FailStep(idx, step, ctx,
                  IF found.agent_type = "custom"
                  THEN CustomFailedText(found.agent_id, outcome.text)
                  ELSE outcome.text,
                  <<Invocation(found.agent_type, found.agent_id, message)>>)

\* a loop body that takes an unknown reference for a built-in agent
Resolved_AlwaysFound(manager, request, idx, step, ctx, found, outcome) ==
    CallAgent(idx, step, ctx,
              IF found.agent_type = "none" THEN Found("built-in", found.agent_id)
              ELSE found,
              StepMessage("built-in", idx, ctx, request,
                          Get(step, K_task, None),
                          Get(step, K_context, Str(<<>>))),
              outcome)

Resolved(manager, request, idx, step, ctx, found, outcome) ==
    IF found.agent_type = "none"
    THEN FailStep(idx, step, ctx,
                  AgentNotFoundText(manager, Get(step, K_agent, None).a), <<>>)
    ELSE CallAgent(idx, step, ctx, found,
                   StepMessage(found.agent_type, idx, ctx, request,
                               Get(step, K_task, None),
                               Get(step, K_context, Str(<<>>))),
                   outcome)

\* the body of the for loop for the step at index idx: a step that is no
\* dict makes step.get raise in the try block and again in the except
\* branch, which lets the exception out
LoopPass(manager, request, idx, step, ctx, outcome) ==
    IF step.k # "dict" THEN Pass(TRUE, <<>>, <<>>, ctx, <<>>)
    ELSE IF Get(step, K_agent, None).k # "str"
    THEN FailStep(idx, step, ctx, NotStringText(Get(step, K_agent, None)), <<>>)
    ELSE Resolved(manager, request, idx, step, ctx,
                  Lookup(manager, Get(step, K_agent, None).a), outcome)

\* a loop over every step of the plan, without the cap
Sliced_NoCap(steps) ==
    CASE steps.k = "list" ->
           [raised |-> FALSE,
            items |-> [n \in 1..Len(steps.c) |-> steps.c[n].val]]
      [] steps.k = "str" ->
           [raised |-> FALSE,
            items |-> [n \in 1..Len(steps.a) |-> Str(<<steps.a[n]>>)]]
      [] OTHER -> [raised |-> TRUE, items |-> <<>>]

\* plan["execution_steps"][:self.max_steps]: a list gives its first items,
\* a str its first characters; any other value raises
Sliced(steps) ==
    CASE steps.k = "list" ->
           [raised |-> FALSE,
            items |-> [n \in 1..(IF Len(steps.c) < max_steps
                                 THEN Len(steps.c) ELSE max_steps) |->
                          steps.c[n].val]]
      [] steps.k = "str" ->
           [raised |-> FALSE,
            items |-> [n \in 1..(IF Len(steps.a) < max_steps
                                 THEN Len(steps.a) ELSE max_steps) |->
                          Str(<<steps.a[n]>>)]]
      [] OTHER -> [raised |-> TRUE, items |-> <<>>]

(***************************************************************************)
(* _synthesize_response                                                    *)
(***************************************************************************)
\* the part of the synthesis one step contributes
StepText(entry) ==
    IF entry.status = "completed"
    THEN <<"*", "*", "S", "t", "e", "p", " ">> \o IntText(entry.step) \o <<" ", "(">> \o AgentTypeText(entry.agent_type)
         \o <<" ", "a", "g", "e", "n", "t", ":", " ">> \o PyStr(entry.agent) \o <<")", ":", "*", "*", " ">> \o PyStr(entry.task)
         \o <<"\n", "R", "e", "s", "u", "l", "t", ":", " ">> \o entry.response \o <<"\n", "\n">>
    ELSE <<"*", "*", "S", "t", "e", "p", " ">> \o IntText(entry.step) \o <<" ", "(">> \o PyStr(entry.agent)
         \o <<")", ":", "*", "*", " ">> \o PyStr(entry.task)
         \o <<"\n", "E", "r", "r", "o", "r", ":", " ">> \o entry.error \o <<"\n", "\n">>

RECURSIVE StepTexts(_)
StepTexts(steps) ==
    IF steps = <<>> THEN <<>> ELSE StepText(Head(steps)) \o StepTexts(Tail(steps))

SynthesisHeader == <<"I", "'", "v", "e", " ", "c", "o", "m", "p", "l", "e", "t", "e", "d", " ", "y", "o", "u", "r", " ", "r", "e", "q", "u", "e", "s", "t", " ", "i", "n", " ", "m", "u", "l", "t", "i", "p", "l", "e", " ", "s", "t", "e", "p", "s", ":", "\n", "\n">>

\* a synthesis that puts a single step under a header too
_synthesize_response_AlwaysHeaders(steps) ==
    IF steps = <<>> THEN <<"N", "o", " ", "s", "t", "e", "p", "s", " ", "w", "e", "r", "e", " ", "e", "x", "e", "c", "u", "t", "e", "d">>
    ELSE Strip(SynthesisHeader \o StepTexts(steps))

_synthesize_response(steps) ==
    IF steps = <<>> THEN <<"N", "o", " ", "s", "t", "e", "p", "s", " ", "w", "e", "r", "e", " ", "e", "x", "e", "c", "u", "t", "e", "d">>
    ELSE IF Len(steps) = 1
    THEN IF steps[1].status = "completed" THEN steps[1].response ELSE steps[1].error
    ELSE Strip(SynthesisHeader \o StepTexts(steps))


(***************************************************************************)
(* OrchSpec: one request through analyze_request and                       *)
(* execute_sequential_plan, as api_server.py and the scheduler chain them. *)
(* The planning model's reply is the input; valid plans reach the          *)
(* orchestrator as the JSON text json.dumps gives them.                    *)
(***************************************************************************)
\* the longest plan the planning model writes
MaxPlanLen == 6

\* up to this length the plans are all the sequences of steps
MaxMixedLen == 3

A_widgets == <<"a", "1", "b", "2", "c", "3", "d", "4">>

\* one custom agent, whose name no other shares
Registry == Manager(<<CustomAgent(A_widgets, <<"W", "i", "d", "g", "e", "t", "s">>)>>)

\* custom agents whose names match a reference to the agent a1b2c3d4 exactly
\* and partially, and come before it in the dict
ShadowRegistry ==
    Manager(<<CustomAgent(<<"f", "f", "f", "f", "0", "0", "0", "0">>, <<"W", "I", "D", "G", "E", "T", "S", " ", "(", "a", "1", "b", "2", "c", "3", "d", "4", ")">>),
              CustomAgent(<<"e", "e", "e", "e", "1", "1", "1", "1">>, <<"w", "i", "d", "g", "e", "t", "s">>),
              CustomAgent(A_widgets, <<"G", "a", "d", "g", "e", "t", "s">>)>>)

Registries == {NoManager, Manager(<<>>), Registry, ShadowRegistry}

\* the references a plan of one step is written with
AgentRefs ==
    {<<"h", "o", "m", "e">>, <<"H", "o", "m", "e">>, <<"f", "i", "n", "a", "n", "c", "e">>, <<"W", "i", "d", "g", "e", "t", "s", " ", "(", "a", "1", "b", "2", "c", "3", "d", "4", ")">>,
     <<"w", "i", "d", "g", "e", "t", "s", " ", "(", "a", "1", "b", "2", "c", "3", "d", "4", ")">>, <<"W", "I", "D", "G", "E", "T", "S", " ", "(", "a", "1", "b", "2", "c", "3", "d", "4", ")">>, <<"G", "a", "d", "g", "e", "t", "s", " ", "(", "a", "1", "b", "2", "c", "3", "d", "4", ")">>,
     <<"h", "o", "m", "e", " ", "(", "a", "1", "b", "2", "c", "3", "d", "4", ")">>, <<"(", "a", "1", "b", "2", "c", "3", "d", "4", ")">>, <<"a", "1", "b", "2", "c", "3", "d", "4">>,
     <<"W", "i", "d", "g", "e", "t", "s", " ", "(", "A", "1", "B", "2", "C", "3", "D", "4", ")">>, <<"W", "i", "d", "g", "e", "t", "s", " ", "(", "d", "e", "a", "d", "b", "e", "e", "f", ")">>, <<"W", "i", "d", "g", "e", "t", "s">>,
     <<" ", " ", "w", "i", "d", "g", "e", "t", "s", " ">>, <<"W", "i", "d", "g">>, <<"m", "y", " ", "w", "i", "d", "g", "e", "t", "s", " ", "a", "g", "e", "n", "t">>, <<"G", "a", "d", "g", "e", "t", "s">>,
     <<"n", "o", "b", "o", "d", "y">>, <<>>}

\* the steps the longer plans are made of: a built-in agent without and
\* with a context of its own, a custom agent, and a reference that matches
\* no agent
StepKinds == {"home", "calendar", "custom", "nobody"}

KindRef(kind) ==
    CASE kind = "home" -> <<"h", "o", "m", "e">>
      [] kind = "calendar" -> <<"c", "a", "l", "e", "n", "d", "a", "r">>
      [] kind = "custom" -> <<"W", "i", "d", "g", "e", "t", "s", " ", "(", "a", "1", "b", "2", "c", "3", "d", "4", ")">>
      [] OTHER -> <<"n", "o", "b", "o", "d", "y">>

KindContext(kind) ==
    IF kind \in {"calendar", "custom"} THEN <<"b", "e", "f", "o", "r", "e", " ", "n", "o", "o", "n">> ELSE <<>>

\* the n-th step of a plan, as the prompt of analyze_request asks for it
PlanStep(n, ref, step_context) ==
    Dict(<<Entry(K_step, Num(IntText(n))),
           Entry(K_agent, Str(ref)),
           Entry(K_task, Str(<<"t", "a", "s", "k", " ">> \o IntText(n))),
           Entry(K_context, Str(step_context))>>)

PlanValue(steps) ==
    Dict(<<Entry(K_reasoning, Str(<<"a", "s", " ", "a", "s", "k", "e", "d">>)),
           Entry(K_execution_steps, List(steps))>>)

PlanOfKinds(kinds) ==
    PlanValue([n \in 1..Len(kinds) |->
                  Entry(<<>>, PlanStep(n, KindRef(kinds[n]),
                                       KindContext(kinds[n])))])

KindCycle == <<"home", "custom", "nobody", "calendar">>

\* a longer plan: n steps that go round the kinds, starting after the r-th
LongPlan(n, r) == [i \in 1..n |-> KindCycle[((i + r) % 4) + 1]]

PlanKinds ==
    SeqsUpTo(StepKinds, MaxMixedLen)
    \cup {LongPlan(n, r) : n \in (MaxMixedLen + 1)..MaxPlanLen, r \in 0..3}

PlanOfRef(ref) == PlanValue(<<Entry(<<>>, PlanStep(1, ref, <<>>))>>)

\* replies that are no JSON plan
P_prose == <<"I", " ", "c", "a", "n", "n", "o", "t", " ", "h", "e", "l", "p", " ", "w", "i", "t", "h", " ", "t", "h", "a", "t", ".">>
P_braces == <<"{", "g", "a", "r", "b", "a", "g", "e", "}">>
P_repr == <<"P", "l", "a", "n", ":", " ", "{", "'", "e", "x", "e", "c", "u", "t", "i", "o", "n", "_", "s", "t", "e", "p", "s", "'", ":", " ", "[", "]", "}", " ", "(", "s", "o", "r", "r", "y", ")">>
P_open == <<"{", "\"", "e", "x", "e", "c", "u", "t", "i", "o", "n", "_", "s", "t", "e", "p", "s", "\"", ":", " ", "[", "}">>
P_two == <<"{", "\"", "e", "x", "e", "c", "u", "t", "i", "o", "n", "_", "s", "t", "e", "p", "s", "\"", ":", " ", "[", "]", "}", " ", "o", "r", " ", "{", "\"", "e", "x", "e", "c", "u", "t", "i", "o", "n", "_", "s", "t", "e", "p", "s", "\"", ":", " ", "[", "]", "}">>

GarbageReplies == {P_prose, P_braces, P_repr, P_open, P_two}

\* replies that are JSON objects without steps
P_no_steps == <<"{", "\"", "r", "e", "a", "s", "o", "n", "i", "n", "g", "\"", ":", " ", "\"", "n", "o", "t", "h", "i", "n", "g", " ", "t", "o", " ", "d", "o", "\"", "}">>
P_empty_steps == <<"{", "\"", "r", "e", "a", "s", "o", "n", "i", "n", "g", "\"", ":", " ", "\"", "\"", ",", " ", "\"", "e", "x", "e", "c", "u", "t", "i", "o", "n", "_", "s", "t", "e", "p", "s", "\"", ":", " ", "[", "]", "}">>

\* JSON objects whose execution_steps is no list of step objects
P_steps_str == <<"{", "\"", "e", "x", "e", "c", "u", "t", "i", "o", "n", "_", "s", "t", "e", "p", "s", "\"", ":", " ", "\"", "h", "o", "m", "e", "\"", "}">>
P_steps_dict == <<"{", "\"", "e", "x", "e", "c", "u", "t", "i", "o", "n", "_", "s", "t", "e", "p", "s", "\"", ":", " ", "{", "\"", "a", "g", "e", "n", "t", "\"", ":", " ", "\"", "h", "o", "m", "e", "\"", "}", "}">>
P_steps_num == <<"{", "\"", "e", "x", "e", "c", "u", "t", "i", "o", "n", "_", "s", "t", "e", "p", "s", "\"", ":", " ", "5", "}">>
P_step_str == <<"{", "\"", "e", "x", "e", "c", "u", "t", "i", "o", "n", "_", "s", "t", "e", "p", "s", "\"", ":", " ", "[", "\"", "h", "o", "m", "e", "\"", "]", "}">>
P_step_null_agent == <<"{", "\"", "e", "x", "e", "c", "u", "t", "i", "o", "n", "_", "s", "t", "e", "p", "s", "\"", ":", " ", "[", "{", "\"", "a", "g", "e", "n", "t", "\"", ":", " ", "n", "u", "l", "l", ",", " ", "\"", "t", "a", "s", "k", "\"", ":", " ", "\"", "t", "a", "s", "k", " ", "1", "\"", "}", "]", "}">>

MisshapenReplies ==
    {P_steps_str, P_steps_dict, P_steps_num, P_step_str, P_step_null_agent}

\* a plan inside prose
P_wrapped == <<"H", "e", "r", "e", " ", "i", "s", " ", "t", "h", "e", " ", "p", "l", "a", "n", ":", "\n">> \o json_dumps(PlanOfKinds(<<"home", "custom">>)) \o <<"\n", "D", "o", "n", "e", ".">>

PlanningReplies(manager) ==
    IF manager = Registry
    THEN GarbageReplies \cup {P_no_steps, P_empty_steps, P_wrapped}
         \cup MisshapenReplies
         \cup {json_dumps(PlanOfKinds(kinds)) :
                   kinds \in PlanKinds}
    ELSE {json_dumps(PlanOfRef(ref)) : ref \in AgentRefs}

\* what the providers do on the planning call
PlanningBehaviours(manager) ==
    {Replying(r) : r \in PlanningReplies(manager)}
    \cup (IF manager = Registry THEN {AllDown("anthropic")} ELSE {})

\* what the agent of the step at index idx does when it is invoked: its
\* answer (at an even index one that ends with a newline) or an exception
AgentOutcomes(idx) ==
    {Returns(<<"o", "u", "t">> \o IntText(idx + 1) \o (IF idx % 2 = 0 THEN <<"\n">> ELSE <<>>)),
     Raises(<<"b", "o", "o", "m">>)}

BuiltinAgentIds == {BuiltinAgents[n] : n \in 1..Len(BuiltinAgents)}

\* the turns a think_and_act call adds to the agent's transcript: the
\* request, and the reply it returned or the reply at which it raised
\* (an action with null parameters)
Appended(message, outcome) ==
    <<Turn("user", message),
      Turn("assistant", IF outcome.ok THEN outcome.text ELSE R_null_params)>>

\* the transcripts of the built-in agents after one pass of the loop:
\* agent.think_and_act(step_message) appends to the agent's memory, and
\* clear_memory() follows only when it returned
MemoryAfter(transcripts, invoked, outcome) ==
    IF invoked = <<>> \/ invoked[1].agent_type # "built-in"
    THEN transcripts
    ELSE [transcripts EXCEPT
              ![invoked[1].agent] =
                  IF outcome.ok THEN <<>>
                  ELSE @ \o Appended(invoked[1].message, outcome)]

OrchInit ==
    /\ default_provider = "ollama"
    /\ failover_order = set_failover_order(<<"ollama", "anthropic">>)
    /\ chat_log = NoChat
    /\ ParserOff
    /\ LoopOff
    /\ custom_agents_manager \in Registries
    /\ analysis = NoAnalysis
    /\ orch_pc = "idle"
    /\ step_index = 0
    /\ context = <<>>
    /\ results = NoResults
    /\ agent_calls = <<>>
    /\ agent_memory = [agent \in BuiltinAgentIds |-> <<>>]
    /\ ServicesOff

\* analyze_request(user_request)
Analyze ==
    /\ orch_pc = "idle"
    /\ \E behaviour \in PlanningBehaviours(custom_agents_manager) :
          analysis' = _parse_analysis(
                          _call_ollama(chat("", TRUE, default_provider,
                                            failover_order, behaviour)),
                          UserRequest)
    /\ orch_pc' = "planned"
    /\ UNCHANGED <<custom_agents_manager, step_index, context, results,
                   agent_calls, agent_memory, parserVars, configVars, chat_log, loopVars, serviceVars>>

\* execute_sequential_plan(analysis) is entered: results and context are
\* set up and the steps are sliced
Execute ==
    /\ orch_pc = "planned"
    /\ results' = NoResults
    /\ context' = <<"U", "s", "e", "r", " ", "R", "e", "q", "u", "e", "s", "t", ":", " ">> \o analysis.user_request \o <<"\n", "\n">>
    /\ step_index' = 0
    /\ orch_pc' = IF Sliced(analysis.execution_steps).raised
                  THEN "raised" ELSE "steps"
    /\ UNCHANGED <<custom_agents_manager, analysis, agent_calls, agent_memory, parserVars,
                   configVars, chat_log, loopVars, serviceVars>>

\* the effect of one pass of the loop
Advance(pass) ==
    /\ results' = [results EXCEPT
                       !.steps_executed = results.steps_executed \o pass.entries,
                       !.errors = results.errors \o pass.errors]
    /\ context' = pass.context
    /\ agent_calls' = agent_calls \o pass.invoked
    /\ step_index' = step_index + 1
    /\ orch_pc' = IF pass.raised THEN "raised" ELSE "steps"

\* one pass of the for loop
Step ==
    /\ orch_pc = "steps"
    /\ step_index < Len(Sliced(analysis.execution_steps).items)
    /\ \E outcome \in AgentOutcomes(step_index) :
          /\ Advance(LoopPass(custom_agents_manager, analysis.user_request,
                              step_index,
                              Sliced(analysis.execution_steps).items[step_index + 1],
                              context, outcome))
          /\ agent_memory' =
                 MemoryAfter(agent_memory,
                             LoopPass(custom_agents_manager, analysis.user_request,
                                      step_index,
                                      Sliced(analysis.execution_steps).items[step_index + 1],
                                      context, outcome).invoked,
                             outcome)
    /\ UNCHANGED <<custom_agents_manager, analysis, parserVars, configVars,
                   chat_log, loopVars, serviceVars>>

\* the loop is over: the response is synthesized and results returned
Finish ==
    /\ orch_pc = "steps"
    /\ step_index = Len(Sliced(analysis.execution_steps).items)
    /\ results' = [results EXCEPT
                       !.final_response = _synthesize_response(results.steps_executed),
                       !.success = (Len(results.errors) = 0)]
    /\ orch_pc' = "done"
    /\ UNCHANGED <<custom_agents_manager, analysis, step_index, context,
                   agent_calls, agent_memory, parserVars, configVars, chat_log, loopVars, serviceVars>>

OrchNext == Analyze \/ Execute \/ Step \/ Finish

OrchSpec == OrchInit /\ [][OrchNext]_vars


(***************************************************************************)
(* Claims about the orchestrator                                           *)
(***************************************************************************)
\* the steps execute_sequential_plan loops over
PlanItems == Sliced(analysis.execution_steps).items

\* the loop is about to process the step at step_index
Stepping == orch_pc = "steps" /\ step_index < Len(PlanItems)

\* the agent reference of that step
CurrentRef == Get(PlanItems[step_index + 1], K_agent, None).a

\* the planning replies that are no JSON plan: prose, text with braces that
\* json.loads rejects, and what the router returns when every provider failed
NotAPlan == GarbageReplies \cup {AllFailedText(FailText("anthropic"))}

\* C14: whenever the planning reply cannot be parsed as a JSON plan (text
\* without braces, text with braces, the router's error string),
\* analyze_request returns a plan of exactly one step, whose agent is the
\* default agent and whose task is the user's request verbatim.
C14_UnparsableReplyGivesFallback ==
    (orch_pc \in {"planned", "steps", "done"} /\ analysis.llm_analysis \in NotAPlan)
        => /\ analysis.execution_steps.k = "list"
           /\ Len(analysis.execution_steps.c) = 1
           /\ Get(analysis.execution_steps.c[1].val, K_agent, None) = Str(<<"h", "o", "m", "e">>)
           /\ Get(analysis.execution_steps.c[1].val, K_task, None) = Str(analysis.user_request)


\* references of the form "Name (xxxxxxxx)" to the agent a1b2c3d4: with
\* the name of another custom agent, in any case, with the name of a
\* built-in agent, and without a name
IdRefs ==
    {<<"W", "i", "d", "g", "e", "t", "s", " ", "(", "a", "1", "b", "2", "c", "3", "d", "4", ")">>, <<"w", "i", "d", "g", "e", "t", "s", " ", "(", "a", "1", "b", "2", "c", "3", "d", "4", ")">>, <<"W", "I", "D", "G", "E", "T", "S", " ", "(", "a", "1", "b", "2", "c", "3", "d", "4", ")">>,
     <<"G", "a", "d", "g", "e", "t", "s", " ", "(", "a", "1", "b", "2", "c", "3", "d", "4", ")">>, <<"h", "o", "m", "e", " ", "(", "a", "1", "b", "2", "c", "3", "d", "4", ")">>, <<"(", "a", "1", "b", "2", "c", "3", "d", "4", ")">>}

\* C15: when a step names its agent as "Name (xxxxxxxx)" and an agent with
\* that id is registered, the step is resolved to the agent with that id:
\* it is the custom agent invoked, and the entry of a completed step names
\* it, whichever agents match the reference by name.
C15_IdInParenthesesWins ==
    [][(/\ Stepping
        /\ CurrentRef \in IdRefs
        /\ get_agent(custom_agents_manager, A_widgets) # 0)
          => /\ Len(agent_calls') = Len(agent_calls) + 1
             /\ agent_calls'[Len(agent_calls')].agent_type = "custom"
             /\ agent_calls'[Len(agent_calls')].agent = A_widgets
             /\ \/ results'.steps_executed[step_index + 1].status = "failed"
                \/ /\ results'.steps_executed[step_index + 1].agent = Str(A_widgets)
                   /\ results'.steps_executed[step_index + 1].agent_type = "custom"
      ]_vars

\* the agent a1b2c3d4 was invoked and answered although two agents
\* registered before it match the reference by exact and by partial name
C15_Witness ==
    /\ orch_pc = "done"
    /\ custom_agents_manager = ShadowRegistry
    /\ Get(PlanItems[1], K_agent, None) = Str(<<"W", "i", "d", "g", "e", "t", "s", " ", "(", "a", "1", "b", "2", "c", "3", "d", "4", ")">>)
    /\ results.steps_executed[1].status = "completed"
    /\ results.steps_executed[1].agent = Str(A_widgets)
    /\ agent_calls = <<Invocation("custom", A_widgets, analysis.user_request)>>

\* no registered agent matches the reference: it is no built-in key, and
\* for no custom agent is it the id, does it hold the id in parentheses, is
\* it the name or does it hold or lie within the name (case-insensitively)
NoAgentMatches(manager, ref) ==
    /\ ~InSeq(BuiltinAgents, ref)
    /\ \A n \in 1..Len(manager.custom_agents) :
          /\ manager.custom_agents[n].id # ref
          /\ ~Contains(ref, <<"(">> \o manager.custom_agents[n].id \o <<")">>)
          /\ Strip(Lower(manager.custom_agents[n].name)) # Strip(Lower(ref))
          /\ ~Contains(Strip(Lower(ref)), Strip(Lower(manager.custom_agents[n].name)))
          /\ ~Contains(Strip(Lower(manager.custom_agents[n].name)), Strip(Lower(ref)))

\* C16: when a step's reference matches no registered agent, the step is
\* recorded as failed with an error that says the agent was not found, no
\* agent is called for it, and the loop goes on: every step the loop covers
\* has its entry when execute_sequential_plan returns.
C16_UnknownAgentFailsStepOnly ==
    [][/\ (Stepping /\ NoAgentMatches(custom_agents_manager, CurrentRef))
            => /\ Len(results'.steps_executed) = Len(results.steps_executed) + 1
               /\ results'.steps_executed[step_index + 1].status = "failed"
               /\ results'.steps_executed[step_index + 1].step = step_index + 1
               /\ Contains(results'.steps_executed[step_index + 1].error,
                           <<"A", "g", "e", "n", "t", " ", "'">> \o CurrentRef \o <<"'", " ", "n", "o", "t", " ", "f", "o", "u", "n", "d">>)
               /\ agent_calls' = agent_calls
               /\ orch_pc' = "steps"
               /\ step_index' = step_index + 1
       /\ (orch_pc' = "done" /\ orch_pc = "steps")
            => Len(results'.steps_executed) = Len(PlanItems)
      ]_vars

\* a step between two others named an unknown agent; the steps after it ran
C16_Witness ==
    /\ orch_pc = "done"
    /\ Len(results.steps_executed) >= 3
    /\ results.steps_executed[1].status = "completed"
    /\ results.steps_executed[2].status = "failed"
    /\ results.steps_executed[2].agent = Str(<<"n", "o", "b", "o", "d", "y">>)
    /\ results.steps_executed[3].status = "completed"
    /\ Len(agent_calls) = Len(results.steps_executed) - 1


\* the number of steps of the plan
PlanLen == Len(analysis.execution_steps.c)

\* C17: only the first 5 steps of a plan are processed, one at a time and
\* in plan order: each processed step has one entry in steps_executed, the
\* n-th entry is the one of the plan's n-th step, at most one agent is
\* invoked per step and at most 5 in all, and when
\* execute_sequential_plan returns steps_executed has min(n, 5) entries for
\* a plan of n steps.
C17_AtMostFiveStepsInOrder ==
    (orch_pc \in {"steps", "done"})
        => /\ Len(results.steps_executed) = step_index
           /\ step_index <= 5
           /\ step_index <= PlanLen
           /\ \A n \in 1..Len(results.steps_executed) :
                 /\ results.steps_executed[n].step = n
                 /\ results.steps_executed[n].task
                        = Get(analysis.execution_steps.c[n].val, K_task, None)
           /\ Len(agent_calls) <= step_index
           /\ (orch_pc = "done")
                 => Len(results.steps_executed) = (IF PlanLen < 5 THEN PlanLen ELSE 5)

\* a plan of six steps was executed: five entries, the sixth step left out
C17_Witness ==
    /\ orch_pc = "done"
    /\ PlanLen = 6
    /\ Len(results.steps_executed) = 5
    /\ Len(agent_calls) = 4

\* the outputs of the steps completed so far
PriorOutputs ==
    {results.steps_executed[n].response : n \in
        {m \in 1..Len(results.steps_executed) :
            results.steps_executed[m].status = "completed"}}

\* C18: the message a step's agent is sent depends on the agent's type.  A
\* custom agent receives the original user request unchanged, at every
\* index and whatever the earlier steps produced.  A built-in agent after
\* the first step receives the accumulated context, which holds the request
\* and the output of every earlier step that completed.
C18_MessageByAgentType ==
    [][(Stepping /\ Len(agent_calls') = Len(agent_calls) + 1)
          => IF agent_calls'[Len(agent_calls')].agent_type = "custom"
             THEN agent_calls'[Len(agent_calls')].message = analysis.user_request
             ELSE /\ \A out \in PriorOutputs :
                        Contains(agent_calls'[Len(agent_calls')].message, out)
                  /\ step_index > 0
                        => /\ SubSeq(agent_calls'[Len(agent_calls')].message,
                                     1, Len(context)) = context
                           /\ Contains(context, analysis.user_request)
                           /\ \A out \in PriorOutputs : Contains(context, out)
      ]_vars

\* a built-in agent was invoked third, after a built-in and a custom agent
\* had answered; the custom agent was invoked second
C18_Witness ==
    /\ Len(agent_calls) >= 3
    /\ Len(results.steps_executed) >= 3
    /\ agent_calls[1].agent_type = "built-in"
    /\ agent_calls[2].agent_type = "custom"
    /\ agent_calls[2].message = analysis.user_request
    /\ agent_calls[3].agent_type = "built-in"
    /\ results.steps_executed[1].status = "completed"
    /\ results.steps_executed[2].status = "completed"
    /\ Contains(agent_calls[3].message, results.steps_executed[1].response)
    /\ Contains(agent_calls[3].message, results.steps_executed[2].response)

\* what a step shows in the response: its output, or its error message
ShownOutput(entry) ==
    IF entry.status = "completed"
    THEN <<"R", "e", "s", "u", "l", "t", ":", " ">> \o entry.response
    ELSE <<"E", "r", "r", "o", "r", ":", " ">> \o entry.error

\* the header of a step in the response
ShownHeader(entry) ==
    <<"*", "*", "S", "t", "e", "p", " ">> \o IntText(entry.step)
    \o (IF entry.status = "completed"
        THEN <<" ", "(">> \o AgentTypeText(entry.agent_type) \o <<" ", "a", "g", "e", "n", "t", ":", " ">>
        ELSE <<" ", "(">>)
    \o PyStr(entry.agent) \o <<")", ":", "*", "*", " ">> \o PyStr(entry.task) \o <<"\n">>

RECURSIVE Joined(_)
\* the steps' headers and outputs, in order, a blank line between two steps
Joined(entries) ==
    IF entries = <<>> THEN <<>>
    ELSE ShownHeader(Head(entries)) \o ShownOutput(Head(entries))
         \o (IF Len(entries) > 1 THEN <<"\n", "\n">> ELSE <<>>)
         \o Joined(Tail(entries))

\* short is long without the whitespace at its end
TrimmedEnd(short, long) ==
    /\ Len(short) <= Len(long)
    /\ SubSeq(long, 1, Len(short)) = short
    /\ \A n \in (Len(short) + 1)..Len(long) : long[n] \in Whitespace
    /\ short # <<>> => short[Len(short)] \notin Whitespace

\* C19: the final response is plain string formatting of the step results.
\* When exactly one step ran it is that step's raw output verbatim (its
\* error message when the step failed); when several ran it is the
\* concatenation, in step order, of each step's output under its header
\* (after an opening line, whitespace at the very end removed).
C19_FinalResponse ==
    (orch_pc = "done")
        => /\ (Len(results.steps_executed) = 1)
                 => results.final_response
                        = (IF results.steps_executed[1].status = "completed"
                           THEN results.steps_executed[1].response
                           ELSE results.steps_executed[1].error)
           /\ (Len(results.steps_executed) > 1)
                 => TrimmedEnd(results.final_response,
                               SynthesisHeader \o Joined(results.steps_executed))

\* three steps ran, the second failed, and the output of the last ends
\* with a newline
C19_Witness ==
    /\ orch_pc = "done"
    /\ Len(results.steps_executed) = 3
    /\ results.steps_executed[1].status = "completed"
    /\ results.steps_executed[2].status = "failed"
    /\ results.steps_executed[3].status = "completed"
    /\ results.steps_executed[3].response = <<"o", "u", "t", "3", "\n">>
    /\ Contains(results.final_response, <<"R", "e", "s", "u", "l", "t", ":", " ", "o", "u", "t", "1", "\n", "\n", "\n", "*", "*", "S", "t", "e", "p", " ", "2", " ", "(">>)
    /\ Contains(results.final_response, <<"*", "*", "S", "t", "e", "p", " ", "3", " ", "(", "c", "u", "s", "t", "o", "m", " ", "a", "g", "e", "n", "t", ":", " ", "a", "1", "b", "2", "c", "3", "d", "4", ")", ":", "*", "*", " ", "t", "a", "s", "k", " ", "3", "\n", "R", "e", "s", "u", "l", "t", ":", " ", "o", "u", "t", "3">>)

\* the entries of the steps that failed
FailedSteps ==
    {n \in 1..Len(results.steps_executed) :
        results.steps_executed[n].status = "failed"}

\* C20: success is false exactly when a processed step failed, which is
\* when errors is not empty; a failed step has exactly one message in
\* errors and exactly one entry, of status "failed", in steps_executed.
C20_SuccessIffNoError ==
    /\ (orch_pc \in {"steps", "done"})
          => /\ Cardinality(FailedSteps) = Len(results.errors)
             /\ \A n \in FailedSteps :
                   /\ Cardinality({m \in 1..Len(results.errors) :
                          results.errors[m] = results.steps_executed[n].error}) = 1
                   /\ Cardinality({m \in 1..Len(results.steps_executed) :
                          results.steps_executed[m].step
                              = results.steps_executed[n].step}) = 1
    /\ (orch_pc = "done")
          => /\ results.success = (FailedSteps = {})
             /\ results.success = (results.errors = <<>>)

\* two steps of four failed: one named an unknown agent, one agent raised
C20_Witness ==
    /\ orch_pc = "done"
    /\ ~results.success
    /\ Len(results.steps_executed) = 4
    /\ Len(results.errors) = 2
    /\ Len(agent_calls) = 3


\* C21: for every planning reply (any text, any JSON shape of the plan and
\* of its steps) and every outcome of the agents called, analyze_request
\* followed by execute_sequential_plan returns a result: no exception
\* leaves execute_sequential_plan.
C21_OrchestratorNeverRaises == orch_pc # "raised"

\* C28: when execute_sequential_plan has returned, every built-in agent it
\* invoked has an empty transcript, whether its step completed or failed
C28_InvokedAgentsAreCleared ==
    orch_pc = "done"
        => \A n \in 1..Len(agent_calls) :
               agent_calls[n].agent_type = "built-in"
                   => agent_memory[agent_calls[n].agent] = <<>>


(***************************************************************************)
(* SessionSpec: one caller invokes think_and_act on one agent several      *)
(* times, one invocation after the other, and may call clear_memory        *)
(* between two invocations.                                                *)
(***************************************************************************)
\* the invocations of one run
MaxSessions == 2

\* what the providers do in these runs: a final answer, a call of a
\* registered tool, a call of an unknown tool, an action that makes
\* think_and_act raise, and a failure of every provider
SessionBehaviours ==
    {Replying(R_final), Replying(R_t), Replying(R_z), Replying(R_list_action),
     AllDown("anthropic")}

\* think_and_act has returned or raised; the caller goes on
Return(th) ==
    /\ pc[th] = "done"
    /\ sessions + 1 < MaxSessions
    /\ sessions' = sessions + 1
    /\ pc' = [pc EXCEPT ![th] = "idle"]
    /\ iteration' = [iteration EXCEPT ![th] = 0]
    /\ response' = [response EXCEPT ![th] = <<>>]
    /\ result' = [result EXCEPT ![th] = <<>>]
    /\ raised' = [raised EXCEPT ![th] = FALSE]
    /\ calls' = [calls EXCEPT ![th] = 0]
    /\ execs' = [execs EXCEPT ![th] = 0]
    /\ llm_log' = [llm_log EXCEPT ![th] = NoChat]
    /\ UNCHANGED <<memory, entry_len, prev_reply, changes, configVars,
                   chat_log, parserVars, orchVars, serviceVars>>

\* Agent.clear_memory, called while no invocation is running
ClearMemory ==
    /\ \A th \in Threads : pc[th] = "idle"
    /\ memory' = <<>>
    /\ UNCHANGED <<pc, iteration, response, result, raised, calls, execs,
                   entry_len, llm_log, prev_reply, changes, sessions,
                   configVars, chat_log, parserVars, orchVars, serviceVars>>

SessionCall == CallLLMFrom("A", SessionBehaviours)

SessionNext ==
    Begin("A") \/ SessionCall \/ Act("A") \/ Exhaust("A") \/ Return("A")
    \/ ClearMemory

SessionSpec == LoopInit /\ [][SessionNext]_vars

\* the first transcript is a prefix of the second
IsPrefix(short, long) ==
    Len(short) <= Len(long) /\ SubSeq(long, 1, Len(short)) = short

\* C22: within one single-threaded invocation of think_and_act the
\* transcript is append-only: every step of the invocation leaves the
\* transcript it found as a prefix of the transcript it leaves, so no turn
\* is removed, reordered or modified and the length never falls below the
\* length at entry; the only step that shortens the transcript is
\* clear_memory, which empties it.
C22_TranscriptAppendOnly ==
    [][/\ (pc["A"] # "idle" \/ pc'["A"] # "idle")
            => /\ IsPrefix(memory, memory')
               /\ pc'["A"] # "idle" => entry_len'["A"] <= Len(memory')
       /\ ~IsPrefix(memory, memory')
            => (memory' = <<>> /\ \A th \in Threads : pc[th] = "idle")
      ]_vars

\* the second invocation on a transcript that was not cleared has run a
\* tool and returned
C22_Witness ==
    /\ sessions = 1
    /\ pc["A"] = "done"
    /\ entry_len["A"] >= 2
    /\ execs["A"] >= 1
    /\ Len(memory) >= entry_len["A"] + 4

\* C26: one invocation calls the model at most 10 times and runs at most
\* one tool per model call; when it returns a final answer on its k-th
\* model call it has appended exactly 2k turns, and when it returns the
\* max-iterations sentinel it has appended exactly 21 turns, the last of
\* which is not the sentinel.
C26_CallAndTurnBudget ==
    \A th \in Threads :
        /\ calls[th] <= 10
        /\ execs[th] <= calls[th]
        /\ (pc[th] = "done" /\ ~raised[th] /\ iteration[th] < 10)
              => /\ result[th] = response[th]
                 /\ Len(memory) - entry_len[th] = 2 * calls[th]
        /\ (pc[th] = "done" /\ iteration[th] = 10)
              => /\ result[th] = MaxIterationsText
                 /\ calls[th] = 10
                 /\ Len(memory) - entry_len[th] = 21
                 /\ memory[Len(memory)].content # MaxIterationsText

\* the sentinel was returned after ten model calls and 21 turns
C26_Witness ==
    /\ pc["A"] = "done"
    /\ result["A"] = MaxIterationsText
    /\ calls["A"] = 10
    /\ execs["A"] >= 1
    /\ Len(memory) = 21

\* C27: starting from an empty transcript, after any sequence of
\* single-threaded invocations (clear_memory called at any points between
\* them) the roles of the transcript alternate, beginning with user: no
\* two consecutive turns have the same role.
C27_RolesAlternate ==
    /\ memory # <<>> => memory[1].role = "user"
    /\ \A n \in 1..(Len(memory) - 1) : memory[n].role # memory[n + 1].role


(***************************************************************************)
(* ConcSpec: two callers invoke think_and_act on the same agent at the     *)
(* same time, without a lock: the steps of the two invocations interleave  *)
(* in every order.  The run is cut after MaxConcCalls model calls, fewer   *)
(* than one invocation needs to exhaust its iterations.                    *)
(***************************************************************************)
\* the model calls of the two invocations together
MaxConcCalls == 3

ConcBehaviours == {Replying(R_final), Replying(R_t)}

ConcCall(th) ==
    /\ calls["A"] + calls["B"] < MaxConcCalls
    /\ CallLLMFrom(th, ConcBehaviours)

ConcNext == \E th \in Threads : Begin(th) \/ ConcCall(th) \/ Act(th)

ConcSpec == LoopInit /\ [][ConcNext]_vars

\* the other of the two invocations
Other(th) == IF th = "A" THEN "B" ELSE "A"

\* C23: two concurrent invocations on one agent share one transcript, so
\* their turns interleave: the message list sent to the model for an
\* invocation is the system prompt followed by the whole shared transcript
\* as it is at that moment, the turns the other invocation appended
\* included.
C23_SharedTranscriptInterleaves ==
    [][\A th \in Threads :
          (pc[th] = "loop" /\ pc'[th] = "respond")
              => /\ llm_log'[th].messages = <<Turn("system", BasePrompt)>> \o memory
                 /\ pc[Other(th)] # "idle"
                       => \E n \in 1..Len(llm_log'[th].messages) :
                             llm_log'[th].messages[n]
                                 = Turn("user", ThreadRequest(Other(th)))
      ]_vars

\* the messages sent for A hold, after A's own request, the request of B
\* and the reply the model gave B
C23_Witness ==
    /\ llm_log["A"].called
    /\ Len(llm_log["A"].messages) = 4
    /\ llm_log["A"].messages[2] = Turn("user", UserRequest)
    /\ llm_log["A"].messages[3] = Turn("user", OtherRequest)
    /\ llm_log["A"].messages[4] = Turn("assistant", R_final)
    /\ pc["B"] = "done"


(***************************************************************************)
(* SchedulerEngine (scheduler/scheduler_engine.py).  _meta maps a job id   *)
(* to its metadata and is written to schedules_meta.json by _save_meta;    *)
(* the BackgroundScheduler holds the jobs themselves.  A job id is a       *)
(* tuple: <<j>> for an id the caller chose, <<j, "manual", ts>> for the    *)
(* id f"{j}_manual_{ts}" that run_now makes.  The scheduler is the         *)
(* apscheduler library: add_job with replace_existing replaces the job of  *)
(* that id, add_job without it raises ConflictingIdError when the id is    *)
(* held, a job whose trigger has no further run time (a date trigger that  *)
(* has fired) is removed by the scheduler, and a paused job does not fire. *)
(* Registering a job can fail in the job store, so add_job raising is an   *)
(* input of the calls.                                                     *)
(***************************************************************************)
JobIds == {<<"a">>}

MaxClock == 1

MaxRuns == 2

ManualId(job_id, ts) == job_id \o <<"manual", ts>>

AllJobIds == JobIds \cup {ManualId(j, ts) : j \in JobIds, ts \in 0..MaxClock}

Triggers == {"cron", "interval", "date"}

Meta(schedule_desc, status) ==
    [present |-> TRUE, schedule_desc |-> schedule_desc, status |-> status]

Job(trigger) == [held |-> TRUE, trigger |-> trigger, paused |-> FALSE]

Returned(op, job_id, success) ==
    [op |-> op, job_id |-> job_id, success |-> success, raised |-> FALSE]

Raised(op, job_id) ==
    [op |-> op, job_id |-> job_id, success |-> FALSE, raised |-> TRUE]

\* dict.pop(job_id, None)
pop(dict, key) == [dict EXCEPT ![key] = NoMeta]

\* _save_meta: the whole map is written to the file
_save_meta(dict) == dict

\* _add_job: the metadata is stored and saved, the job is registered, and
\* when that raises the entry is popped and the map saved again
_add_job(job_id, schedule_desc, trigger, fails) ==
    /\ IF fails
       THEN /\ _meta' = pop([_meta EXCEPT ![job_id] =
                                 Meta(schedule_desc, "active")], job_id)
            /\ jobs' = jobs
            /\ sched_return' = Returned("_add_job", job_id, FALSE)
       ELSE /\ _meta' = [_meta EXCEPT ![job_id] =
                             Meta(schedule_desc, "active")]
            /\ jobs' = [jobs EXCEPT ![job_id] = Job(trigger)]
            /\ sched_return' = Returned("_add_job", job_id, TRUE)
    /\ meta_file' = _save_meta(_meta')
    /\ UNCHANGED <<job_execution_history, now>>

SchedInit ==
    /\ ConfigDefault
    /\ chat_log = NoChat
    /\ ParserOff
    /\ LoopOff
    /\ OrchOff
    /\ FlowOff
    /\ PendingOff
    /\ _meta = [id \in AllJobIds |-> NoMeta]
    /\ meta_file = [id \in AllJobIds |-> NoMeta]
    /\ jobs = [id \in AllJobIds |-> NoJob]
    /\ job_execution_history = <<>>
    /\ now = 0
    /\ sched_return = NoReturn

add_cron_job ==
    /\ \E job_id \in JobIds, fails \in BOOLEAN :
          _add_job(job_id, "daily", "cron", fails)
    /\ UNCHANGED <<coreVars, flowVars, pendingVars>>

add_interval_job ==
    /\ \E job_id \in JobIds, fails \in BOOLEAN :
          _add_job(job_id, "hourly", "interval", fails)
    /\ UNCHANGED <<coreVars, flowVars, pendingVars>>

add_one_shot_job ==
    /\ \E job_id \in JobIds, fails \in BOOLEAN :
          _add_job(job_id, "once", "date", fails)
    /\ UNCHANGED <<coreVars, flowVars, pendingVars>>

pause_job ==
    /\ \E job_id \in JobIds :
          IF ~jobs[job_id].held
          THEN /\ sched_return' = Returned("pause_job", job_id, FALSE)
               /\ UNCHANGED <<_meta, meta_file, jobs>>
          ELSE /\ jobs' = [jobs EXCEPT ![job_id].paused = TRUE]
               /\ _meta' = IF _meta[job_id].present
                           THEN [_meta EXCEPT ![job_id].status = "paused"]
                           ELSE _meta
               /\ meta_file' = IF _meta[job_id].present
                               THEN _save_meta(_meta') ELSE meta_file
               /\ sched_return' = Returned("pause_job", job_id, TRUE)
    /\ UNCHANGED <<job_execution_history, now>>
    /\ UNCHANGED <<coreVars, flowVars, pendingVars>>

resume_job ==
    /\ \E job_id \in JobIds :
          IF ~jobs[job_id].held
          THEN /\ sched_return' = Returned("resume_job", job_id, FALSE)
               /\ UNCHANGED <<_meta, meta_file, jobs>>
          ELSE /\ jobs' = [jobs EXCEPT ![job_id].paused = FALSE]
               /\ _meta' = IF _meta[job_id].present
                           THEN [_meta EXCEPT ![job_id].status = "active"]
                           ELSE _meta
               /\ meta_file' = IF _meta[job_id].present
                               THEN _save_meta(_meta') ELSE meta_file
               /\ sched_return' = Returned("resume_job", job_id, TRUE)
    /\ UNCHANGED <<job_execution_history, now>>
    /\ UNCHANGED <<coreVars, flowVars, pendingVars>>

delete_job ==
    /\ \E job_id \in JobIds :
          IF ~jobs[job_id].held
          THEN /\ sched_return' = Returned("delete_job", job_id, FALSE)
               /\ UNCHANGED <<_meta, meta_file, jobs>>
          ELSE /\ jobs' = [jobs EXCEPT ![job_id] = NoJob]
               /\ _meta' = pop(_meta, job_id)
               /\ meta_file' = _save_meta(_meta')
               /\ sched_return' = Returned("delete_job", job_id, TRUE)
    /\ UNCHANGED <<job_execution_history, now>>
    /\ UNCHANGED <<coreVars, flowVars, pendingVars>>

\* run_now: the metadata is copied under the manual id and saved, then a
\* date job is added without replace_existing; what add_job raises leaves
\* run_now
run_now ==
    /\ \E job_id \in JobIds, fails \in BOOLEAN :
          IF ~_meta[job_id].present
          THEN /\ sched_return' = Returned("run_now", job_id, FALSE)
               /\ UNCHANGED <<_meta, meta_file, jobs>>
          ELSE /\ _meta' = [_meta EXCEPT ![ManualId(job_id, now)] = _meta[job_id]]
               /\ meta_file' = _save_meta(_meta')
               /\ IF fails \/ jobs[ManualId(job_id, now)].held
                  THEN /\ jobs' = jobs
                       /\ sched_return' = Raised("run_now", job_id)
                  ELSE /\ jobs' = [jobs EXCEPT ![ManualId(job_id, now)] = Job("date")]
                       /\ sched_return' = Returned("run_now", job_id, TRUE)
    /\ UNCHANGED <<job_execution_history, now>>
    /\ UNCHANGED <<coreVars, flowVars, pendingVars>>

\* the scheduler fires a job: execute_scheduled_job(job_id) runs the
\* orchestrator, which completes or raises, and records the run; a date
\* job has no further run time and leaves the scheduler
execute_scheduled_job ==
    /\ Len(job_execution_history) < MaxRuns
    /\ \E job_id \in AllJobIds, success \in BOOLEAN :
          /\ jobs[job_id].held
          /\ ~jobs[job_id].paused
          /\ job_execution_history' =
                 Append(job_execution_history,
                        [job_id |-> job_id, success |-> success])
          /\ jobs' = IF jobs[job_id].trigger = "date"
                     THEN [jobs EXCEPT ![job_id] = NoJob]
                     ELSE jobs
    /\ UNCHANGED <<_meta, meta_file, now, sched_return>>
    /\ UNCHANGED <<coreVars, flowVars, pendingVars>>

\* a second passes
Tick ==
    /\ now < MaxClock
    /\ now' = now + 1
    /\ UNCHANGED <<_meta, meta_file, jobs, job_execution_history, sched_return>>
    /\ UNCHANGED <<coreVars, flowVars, pendingVars>>

SchedNext ==
    \/ add_cron_job
    \/ add_interval_job
    \/ add_one_shot_job
    \/ pause_job
    \/ resume_job
    \/ delete_job
    \/ run_now
    \/ execute_scheduled_job
    \/ Tick

SchedSpec == SchedInit /\ [][SchedNext]_vars

\* C24: when _add_job fails to register the job, the metadata map and its
\* file are after the call what they were before it, for a new job id and
\* for one that already had a job, and the call returns success = false
C24_AddJobRollbackRestoresMeta ==
    [][\A job_id \in JobIds :
          sched_return' = Returned("_add_job", job_id, FALSE)
              => /\ _meta' = _meta
                 /\ meta_file' = meta_file
      ]_vars

\* C29: every key of the persisted metadata map is the id of a job the
\* scheduler holds
C29_MetaKeysAreHeldJobs ==
    \A job_id \in AllJobIds :
        meta_file[job_id].present => jobs[job_id].held


(***************************************************************************)
(* WorkflowEngine.execute_workflow (workflow/workflow_engine.py).  A       *)
(* workflow is its start_task_id and its tasks by id; a task has a         *)
(* next_task_id, an on_failure policy and a list of branches; a branch has *)
(* a condition and its own list of task objects.  The links are free: a    *)
(* next_task_id can name the task itself, an earlier task or a task the    *)
(* workflow does not have, and a branch can hold a task id twice or the id *)
(* of a task of the main chain.                                            *)
(***************************************************************************)
TaskIds == {"t1", "t2", "t3"}

MaxBranchTasks == 2

\* what _execute_task leaves in the task: think_and_act returned a text
\* (completed), or the agent is missing or raised on every attempt (failed)
Ran(status, text) == [status |-> status, result |-> text]

R_task_done == Str(<<"d", "o", "n", "e">>)

R_task_error == Str(<<"E", "r", "r", "o", "r", " ", "c", "a", "l", "l", "i", "n", "g", " ", "L", "L", "M", ":", " ", "d", "o", "w", "n">>)

TaskOutcomes ==
    {Ran("completed", R_task_done), Ran("completed", R_task_error),
     Ran("failed", None)}

\* str(value) of a task result
str(value) == IF value = None THEN <<"N", "o", "n", "e">> ELSE value.a

Condition(operator, task_id) == [operator |-> operator, task_id |-> task_id]

NoCondition == [operator |-> "none", task_id |-> NoTask]

\* Condition.evaluate for the operators SUCCESS and FAILURE, with a field
\* that is no key of the context
evaluate(condition, ctx, task_result) ==
    LET actual_value ==
            IF condition.task_id # NoTask /\ ctx[condition.task_id].set
            THEN ctx[condition.task_id].result
            ELSE task_result
    IN  IF condition.operator = "success"
        THEN actual_value # None
                 /\ ~Contains(Lower(str(actual_value)), <<"e", "r", "r", "o", "r">>)
        ELSE IF condition.operator = "failure"
        THEN actual_value = None
                 \/ Contains(Lower(str(actual_value)), <<"e", "r", "r", "o", "r">>)
        ELSE FALSE

\* Branch.should_execute
should_execute(branch, ctx, task_result) ==
    IF branch.condition = NoCondition THEN TRUE
    ELSE evaluate(branch.condition, ctx, task_result)

\* WorkflowTask.get_next_branch: the position of the first branch to take,
\* 0 for None
get_next_branch(branches, ctx, task_result) ==
    FirstIn({n \in 1..Len(branches) :
                should_execute(branches[n], ctx, task_result)})

\* the while condition with the visited check left out
Continues_IgnoresVisited(task_id, seen) == task_id # NoTask

\* the while condition: current_task_id and current_task_id not in visited
Continues(task_id, seen) == task_id # NoTask /\ task_id \notin seen

Unset == [set |-> FALSE]

Stored(ran) == [set |-> TRUE, result |-> ran.result, status |-> ran.status]

BranchTaskIds == {"t1", "t3", "b1"}

BranchTask(task_id, on_failure) ==
    [task_id |-> task_id, on_failure |-> on_failure]

BranchTaskLists ==
    UNION {[1..n -> {BranchTask(id, "stop") : id \in BranchTaskIds}] :
              n \in 1..MaxBranchTasks}

Branch(condition, tasks) == [condition |-> condition, tasks |-> tasks]

BranchLists ==
    {<<>>}
        \cup {<<Branch(condition, tasks)>> :
                  condition \in {NoCondition, Condition("success", NoTask)},
                  tasks \in BranchTaskLists}
        \cup {<<Branch(Condition("failure", "t1"), <<BranchTask("b1", "continue")>>),
                Branch(Condition("success", NoTask), <<BranchTask("t3", "stop")>>)>>}

WorkflowTask(next_task_id, on_failure, branches) ==
    [next_task_id |-> next_task_id, on_failure |-> on_failure,
     branches |-> branches]

Links == TaskIds \cup {NoTask, "gone"}

\* the workflows executed: every way of linking three tasks, the first of
\* them with any of the branch lists
Workflows ==
    {[start_task_id |-> start,
      tasks |-> [id \in TaskIds |->
                    WorkflowTask(next[id], on_failure,
                                 IF id = "t1" THEN branches ELSE <<>>)]] :
        start \in {"t1"}, next \in [TaskIds -> Links],
        on_failure \in {"stop", "continue"}, branches \in BranchLists}

\* list(workflow.tasks.keys())[0]
FirstKey == "t1"

FlowInit ==
    /\ ConfigDefault
    /\ chat_log = NoChat
    /\ ParserOff
    /\ LoopOff
    /\ OrchOff
    /\ SchedOff
    /\ PendingOff
    /\ workflow \in Workflows
    /\ wf_status = "draft"
    /\ wf_pc = "ready"
    /\ current_task_id = NoTask
    /\ visited = {}
    /\ execution_path = <<>>
    /\ wf_context = [id \in TaskIds \cup BranchTaskIds |-> Unset]
    /\ branch_tasks = <<>>
    /\ branch_pos = 0
    /\ task_runs = [id \in TaskIds \cup BranchTaskIds |-> 0]

\* execute_workflow up to the while loop
StartWorkflow ==
    /\ wf_pc = "ready"
    /\ wf_status' = "running"
    /\ execution_path' = <<>>
    /\ visited' = {}
    /\ current_task_id' = IF workflow.start_task_id # NoTask
                             /\ workflow.start_task_id \in TaskIds
                          THEN workflow.start_task_id
                          ELSE FirstKey
    /\ wf_pc' = "loop"
    /\ UNCHANGED <<workflow, wf_context, branch_tasks, branch_pos, task_runs>>
    /\ UNCHANGED <<coreVars, schedVars, pendingVars>>

\* one pass of the while loop up to the choice of the branch
RunTask ==
    /\ wf_pc = "loop"
    /\ Continues(current_task_id, visited)
    /\ visited' = visited \cup {current_task_id}
    /\ IF current_task_id \notin TaskIds
       THEN /\ wf_pc' = "after"
            /\ UNCHANGED <<wf_status, current_task_id, execution_path,
                           wf_context, branch_tasks, branch_pos, task_runs>>
       ELSE \E ran \in TaskOutcomes :
              LET task == workflow.tasks[current_task_id]
                  ctx == [wf_context EXCEPT ![current_task_id] = Stored(ran)]
                  taken == get_next_branch(task.branches, ctx, ran.result)
              IN  /\ execution_path' = Append(execution_path, current_task_id)
                  /\ task_runs' = [task_runs EXCEPT ![current_task_id] = @ + 1]
                  /\ wf_context' = ctx
                  /\ IF ran.status = "failed" /\ task.on_failure = "stop"
                     THEN /\ wf_status' = "failed"
                          /\ wf_pc' = "after"
                          /\ UNCHANGED <<current_task_id, branch_tasks, branch_pos>>
                     ELSE IF Len(task.branches) > 0
                     THEN IF taken # 0
                          THEN /\ wf_pc' = "branch"
                               /\ branch_tasks' = task.branches[taken].tasks
                               /\ branch_pos' = 0
                               /\ UNCHANGED <<wf_status, current_task_id>>
                          ELSE /\ current_task_id' = NoTask
                               /\ wf_pc' = "loop"
                               /\ UNCHANGED <<wf_status, branch_tasks, branch_pos>>
                     ELSE /\ current_task_id' = task.next_task_id
                          /\ wf_pc' = "loop"
                          /\ UNCHANGED <<wf_status, branch_tasks, branch_pos>>
    /\ UNCHANGED workflow
    /\ UNCHANGED <<coreVars, schedVars, pendingVars>>

\* one pass of the for loop over the tasks of the branch taken
RunBranchTask ==
    /\ wf_pc = "branch"
    /\ branch_pos < Len(branch_tasks)
    /\ LET branch_task == branch_tasks[branch_pos + 1]
       IN  IF branch_task.task_id \in visited
           THEN /\ branch_pos' = branch_pos + 1
                /\ UNCHANGED <<wf_status, wf_pc, current_task_id, visited,
                               execution_path, wf_context, task_runs>>
           ELSE \E ran \in TaskOutcomes :
                  /\ visited' = visited \cup {branch_task.task_id}
                  /\ execution_path' = Append(execution_path, branch_task.task_id)
                  /\ task_runs' = [task_runs EXCEPT ![branch_task.task_id] = @ + 1]
                  /\ wf_context' = [wf_context EXCEPT
                                        ![branch_task.task_id] = Stored(ran)]
                  /\ IF ran.status = "failed" /\ branch_task.on_failure = "stop"
                     THEN /\ wf_status' = "failed"
                          /\ current_task_id' = NoTask
                          /\ wf_pc' = "loop"
                          /\ UNCHANGED branch_pos
                     ELSE /\ branch_pos' = branch_pos + 1
                          /\ UNCHANGED <<wf_status, wf_pc, current_task_id>>
    /\ UNCHANGED <<workflow, branch_tasks>>
    /\ UNCHANGED <<coreVars, schedVars, pendingVars>>

\* the for loop is over: the task's next_task_id is followed
EndBranch ==
    /\ wf_pc = "branch"
    /\ branch_pos = Len(branch_tasks)
    /\ current_task_id' = workflow.tasks[current_task_id].next_task_id
    /\ wf_pc' = "loop"
    /\ UNCHANGED <<workflow, wf_status, visited, execution_path, wf_context,
                   branch_tasks, branch_pos, task_runs>>
    /\ UNCHANGED <<coreVars, schedVars, pendingVars>>

\* the while loop is left: the workflow is marked and the result returned
Complete ==
    /\ \/ wf_pc = "after"
       \/ wf_pc = "loop" /\ ~Continues(current_task_id, visited)
    /\ wf_status' = IF wf_status # "failed" THEN "completed" ELSE wf_status
    /\ wf_pc' = "done"
    /\ UNCHANGED <<workflow, current_task_id, visited, execution_path,
                   wf_context, branch_tasks, branch_pos, task_runs>>
    /\ UNCHANGED <<coreVars, schedVars, pendingVars>>

FlowNext ==
    \/ StartWorkflow
    \/ RunTask
    \/ RunBranchTask
    \/ EndBranch
    \/ Complete

WorkflowSpec == FlowInit /\ [][FlowNext]_vars

\* the loop is never starved of the processor
WorkflowLiveSpec == WorkflowSpec /\ WF_vars(FlowNext)

\* C25: execute_workflow terminates for every workflow, cyclic ones
\* included, _execute_task runs at most once for a task id, and no task id
\* is twice in execution_path
C25_TerminatesEachTaskOnce ==
    /\ <>(wf_pc = "done")
    /\ [](/\ \A id \in TaskIds \cup BranchTaskIds : task_runs[id] <= 1
          /\ \A m, n \in 1..Len(execution_path) :
                 execution_path[m] = execution_path[n] => m = n)

\* a cycle t1 -> t2 -> t1 was executed and left after t2
C25_Witness ==
    /\ wf_pc = "done"
    /\ workflow.tasks["t1"].next_task_id = "t2"
    /\ workflow.tasks["t2"].next_task_id = "t1"
    /\ workflow.tasks["t1"].branches = <<>>
    /\ execution_path = <<"t1", "t2">>
    /\ wf_status = "completed"


(***************************************************************************)
(* The schedule confirmation flow of execute_orchestrated_query            *)
(* (base/api_server.py) over schedule_intent._pending_confirmations.  The  *)
(* server handles requests on threads, so two requests run interleaved;    *)
(* the steps of a request are the accesses to the shared dict and the call *)
(* of _create_job_from_spec.  has_pending, store_pending and pop_pending   *)
(* are each one dict operation.  intent_to_job_spec draws a fresh job id   *)
(* for every spec.                                                         *)
(***************************************************************************)
SessionKeys == {"default"}

MaxSpecs == 2

MaxRequests == 3

SpecJobIds == {<<"job", n>> : n \in 1..MaxSpecs}

JobSpec(job_id, schedule_type) ==
    [present |-> TRUE, job_id |-> job_id, schedule_type |-> schedule_type,
     schedule_desc |-> "daily"]

ConfirmWords ==
    {<<"y", "e", "s">>, <<"y", "e", "a", "h">>, <<"c", "o", "n", "f", "i", "r", "m">>, <<"o", "k">>, <<"s", "u", "r", "e">>, <<"c", "r", "e", "a", "t", "e", " ", "i", "t">>,
     <<"y", "e", "s", " ", "p", "l", "e", "a", "s", "e">>, <<"y", "e", "p">>, <<"y">>}

CancelWords ==
    {<<"n", "o">>, <<"c", "a", "n", "c", "e", "l">>, <<"n", "o", "p", "e">>, <<"n">>, <<"n", "o", " ", "t", "h", "a", "n", "k", "s">>, <<"s", "t", "o", "p">>,
     <<"n", "e", "v", "e", "r", "m", "i", "n", "d">>}

is_confirmation(message) == Lower(Strip(message)) \in ConfirmWords

is_cancellation(message) == Lower(Strip(message)) \in CancelWords

schedule_keywords ==
    {<<"e", "v", "e", "r", "y">>, <<"d", "a", "i", "l", "y">>, <<"w", "e", "e", "k", "l", "y">>, <<"m", "o", "n", "t", "h", "l", "y">>, <<"h", "o", "u", "r", "l", "y">>, <<"e", "a", "c", "h">>,
     <<"r", "e", "m", "i", "n", "d", " ", "m", "e">>, <<"s", "c", "h", "e", "d", "u", "l", "e">>, <<"a", "u", "t", "o", "m", "a", "t", "e">>, <<"r", "u", "n", " ", "a", "t">>, <<"s", "e", "t", " ", "u", "p">>,
     <<"a", "t", " ">>, <<"e", "v", "e", "r", "y", " ", "m", "o", "r", "n", "i", "n", "g">>, <<"e", "v", "e", "r", "y", " ", "e", "v", "e", "n", "i", "n", "g">>, <<"e", "v", "e", "r", "y", " ", "n", "i", "g", "h", "t">>,
     <<"c", "r", "o", "n">>, <<"r", "e", "c", "u", "r", "r", "i", "n", "g">>, <<"p", "e", "r", "i", "o", "d", "i", "c", "a", "l", "l", "y">>, <<"i", "n", " ", "3", "0", " ", "m", "i", "n", "u", "t", "e", "s">>,
     <<"t", "o", "m", "o", "r", "r", "o", "w">>, <<"e", "a", "c", "h", " ", "d", "a", "y">>, <<"e", "a", "c", "h", " ", "w", "e", "e", "k">>}

\* the pre-filter of detect_schedule_intent
has_keyword(message) ==
    \E kw \in schedule_keywords : Contains(Lower(message), kw)

has_pending(pending, session_key) == pending[session_key].present

store_pending(pending, session_key, job_spec) ==
    [pending EXCEPT ![session_key] = job_spec]

\* a pop_pending that reads the spec and leaves it in the dict
pop_pending_Peeks(pending, session_key) ==
    [value |-> pending[session_key], pending |-> pending]

\* pop_pending: _pending_confirmations.pop(session_key, None), the value
\* and the dict after it
pop_pending(pending, session_key) ==
    [value |-> pending[session_key],
     pending |-> [pending EXCEPT ![session_key] = NoSpec]]

Q_yes == <<" ", "Y", "e", "s", " ">>

Q_no == <<"n", "o">>

Q_schedule == <<"c", "h", "e", "c", "k", " ", "m", "a", "i", "l", " ", "d", "a", "i", "l", "y">>

Q_other == <<"h", "e", "l", "l", "o">>

Queries == {Q_yes, Q_no, Q_schedule, Q_other}

ScheduleTypes == {"cron", "one_shot", "fortnightly"}

Request(at, query, session_key, job_spec) ==
    [pc |-> at, query |-> query, session_key |-> session_key,
     job_spec |-> job_spec]

Idle == Request("idle", <<>>, "default", NoSpec)

Response(status, kind) == [status |-> status, kind |-> kind]

\* _store_conversation: the user message and the assistant message
_store_conversation(history, query, kind) ==
    history \o <<[type |-> "user", message |-> query],
                 [type |-> "assistant", message |-> kind]>>

ConfirmInit ==
    /\ ConfigDefault
    /\ chat_log = NoChat
    /\ ParserOff
    /\ LoopOff
    /\ OrchOff
    /\ FlowOff
    /\ _meta = [id \in SpecJobIds |-> NoMeta]
    /\ meta_file = [id \in SpecJobIds |-> NoMeta]
    /\ jobs = [id \in SpecJobIds |-> NoJob]
    /\ job_execution_history = <<>>
    /\ now = 0
    /\ sched_return = NoReturn
    /\ _pending_confirmations = [key \in SessionKeys |-> NoSpec]
    /\ req = [th \in Threads |-> Idle]
    /\ http_resp = [th \in Threads |-> NoReply]
    /\ uuids = 0
    /\ created = <<>>
    /\ conversations = <<>>
    /\ served = 0

\* a request arrives: has_pending(session_key) is read and the branch chosen
Receive(th) ==
    /\ req[th].pc = "idle"
    /\ served < MaxRequests
    /\ served' = served + 1
    /\ \E query \in Queries, session_key \in SessionKeys :
          req' = [req EXCEPT ![th] =
                     Request(IF has_pending(_pending_confirmations, session_key)
                                 /\ is_confirmation(query)
                             THEN "confirm"
                             ELSE IF has_pending(_pending_confirmations, session_key)
                                     /\ is_cancellation(query)
                             THEN "cancel"
                             ELSE "detect",
                             query, session_key, NoSpec)]
    /\ UNCHANGED <<_pending_confirmations, http_resp, uuids, created,
                   conversations>>
    /\ UNCHANGED <<coreVars, schedVars, flowVars>>

\* job_spec = pop_pending(session_key) of a confirmation
PopConfirmed(th) ==
    /\ req[th].pc = "confirm"
    /\ _pending_confirmations' =
           pop_pending(_pending_confirmations, req[th].session_key).pending
    /\ req' = [req EXCEPT ![th].pc = "create",
                          ![th].job_spec =
                              pop_pending(_pending_confirmations,
                                          req[th].session_key).value]
    /\ UNCHANGED <<http_resp, uuids, created, conversations, served>>
    /\ UNCHANGED <<coreVars, schedVars, flowVars>>

\* _create_job_from_spec(job_spec) and the response of a confirmation: a
\* spec of None makes spec.get raise, which the handler turns into a 500
CreateJob(th) ==
    /\ req[th].pc = "create"
    /\ IF ~req[th].job_spec.present
       THEN /\ http_resp' = [http_resp EXCEPT ![th] = Response(500, "error")]
            /\ UNCHANGED <<created, conversations, schedVars>>
       ELSE /\ IF req[th].job_spec.schedule_type = "cron"
               THEN \E fails \in BOOLEAN :
                       _add_job(req[th].job_spec.job_id,
                                req[th].job_spec.schedule_desc, "cron", fails)
               ELSE IF req[th].job_spec.schedule_type = "one_shot"
               THEN \E fails \in BOOLEAN :
                       _add_job(req[th].job_spec.job_id,
                                req[th].job_spec.schedule_desc, "date", fails)
               ELSE /\ sched_return' =
                           Returned("_create_job_from_spec",
                                    req[th].job_spec.job_id, FALSE)
                    /\ UNCHANGED <<_meta, meta_file, jobs,
                                   job_execution_history, now>>
            /\ created' = Append(created,
                                 [job_id |-> req[th].job_spec.job_id,
                                  success |-> sched_return'.success])
            /\ http_resp' = [http_resp EXCEPT ![th] =
                                Response(200, IF sched_return'.success
                                              THEN "created" ELSE "not created")]
            /\ conversations' =
                   _store_conversation(conversations, req[th].query,
                                       IF sched_return'.success
                                       THEN "created" ELSE "not created")
    /\ req' = [req EXCEPT ![th] = Idle]
    /\ UNCHANGED <<_pending_confirmations, uuids, served>>
    /\ UNCHANGED <<coreVars, flowVars>>

\* a cancellation: pop_pending(session_key) and the response
Cancel(th) ==
    /\ req[th].pc = "cancel"
    /\ _pending_confirmations' =
           pop_pending(_pending_confirmations, req[th].session_key).pending
    /\ http_resp' = [http_resp EXCEPT ![th] = Response(200, "cancelled")]
    /\ conversations' =
           _store_conversation(conversations, req[th].query, "cancelled")
    /\ req' = [req EXCEPT ![th] = Idle]
    /\ UNCHANGED <<uuids, created, served>>
    /\ UNCHANGED <<coreVars, schedVars, flowVars>>

\* detect_schedule_intent finds an intent: the spec is stored as pending
StorePending(th) ==
    /\ req[th].pc = "detect"
    /\ has_keyword(req[th].query)
    /\ uuids < MaxSpecs
    /\ uuids' = uuids + 1
    /\ \E schedule_type \in ScheduleTypes :
          _pending_confirmations' =
              store_pending(_pending_confirmations, req[th].session_key,
                            JobSpec(<<"job", uuids + 1>>, schedule_type))
    /\ http_resp' = [http_resp EXCEPT ![th] = Response(200, "pending")]
    /\ conversations' =
           _store_conversation(conversations, req[th].query, "pending")
    /\ req' = [req EXCEPT ![th] = Idle]
    /\ UNCHANGED <<created, served>>
    /\ UNCHANGED <<coreVars, schedVars, flowVars>>

\* detect_schedule_intent finds none: the orchestrator answers or raises
Answer(th) ==
    /\ req[th].pc = "detect"
    /\ \E ok \in BOOLEAN :
          IF ok
          THEN /\ http_resp' = [http_resp EXCEPT ![th] = Response(200, "answer")]
               /\ conversations' =
                      _store_conversation(conversations, req[th].query, "answer")
          ELSE /\ http_resp' = [http_resp EXCEPT ![th] = Response(500, "error")]
               /\ UNCHANGED conversations
    /\ req' = [req EXCEPT ![th] = Idle]
    /\ UNCHANGED <<_pending_confirmations, uuids, created, served>>
    /\ UNCHANGED <<coreVars, schedVars, flowVars>>

ConfirmNext ==
    \E th \in Threads :
        \/ Receive(th)
        \/ PopConfirmed(th)
        \/ CreateJob(th)
        \/ Cancel(th)
        \/ StorePending(th)
        \/ Answer(th)

ConfirmSpec == ConfirmInit /\ [][ConfirmNext]_vars

\* the _create_job_from_spec calls made for a job id
CallsFor(log, job_id) == {n \in 1..Len(log) : log[n].job_id = job_id}

\* C30: a pending job spec is consumed at most once: the pop of a
\* confirmation or of a cancellation leaves has_pending(session_key) false
\* and creates nothing, a cancellation leaves the scheduler as it was, and
\* _create_job_from_spec is called at most once for a spec, also when two
\* confirmations for the session key run at the same time or one after the
\* other
C30_PendingSpecConsumedOnce ==
    [][\A th \in Threads :
          /\ (req[th].pc = "confirm" /\ req'[th].pc = "create")
                 => /\ ~has_pending(_pending_confirmations', req[th].session_key)
                    /\ created' = created
                    /\ jobs' = jobs
          /\ (req[th].pc = "cancel" /\ req'[th].pc = "idle")
                 => /\ ~has_pending(_pending_confirmations', req[th].session_key)
                    /\ created' = created
                    /\ jobs' = jobs
          /\ \A job_id \in SpecJobIds :
                 /\ Cardinality(CallsFor(created', job_id)) <= 1
                 /\ Cardinality({other \in Threads :
                                    /\ req'[other].job_spec.present
                                    /\ req'[other].job_spec.job_id = job_id})
                        + Cardinality(CallsFor(created', job_id))
                        + (IF \E key \in SessionKeys :
                                 /\ _pending_confirmations'[key].present
                                 /\ _pending_confirmations'[key].job_id = job_id
                           THEN 1 ELSE 0) <= 1
      ]_vars

\* two confirmations ran at the same time: one created the job, the other
\* popped nothing and was answered with an error
C30_Witness ==
    /\ http_resp["A"] = Response(200, "created")
    /\ http_resp["B"] = Response(500, "error")
    /\ Len(created) = 1
    /\ created[1].success
    /\ jobs[created[1].job_id].held
    /\ served = 3
    /\ \A th \in Threads : req[th].pc = "idle"

=============================================================================
